---- MODULE Spec2Model ----
(***************************************************************************)
(* The compound-file (CFB / OLE2) reader of mscdex/documation.             *)
(*                                                                         *)
(* The repository holds two revisions of the parser:                       *)
(*   src/unnamed/part_000        (RevCfb: tree lift, DIFAT reader,         *)
(*                                size versioning, unsigned SECTs)         *)
(*   src/lib/compound/index.js   (RevLib: no tree lift, _parseDIF is a     *)
(*                                TODO, signed SECTs)                      *)
(* and the work queue both use, src/unnamed/part_001 (deps/work).          *)
(* The variable rev says which revision runs; where they agree a           *)
(* definition models both.                                                 *)
(*                                                                         *)
(* The event loop is modelled as node runs it: process.nextTick callbacks  *)
(* run in FIFO order (ticks), fs.read completions arrive in any order      *)
(* (reads), an exception thrown inside a callback is an uncaught exception *)
(* (crashed), a loop that never ends blocks the loop for ever (hung).      *)
(***************************************************************************)
EXTENDS Integers, Sequences, FiniteSets, TLC

VARIABLES
  rev,      \* which revision of the parser runs
  file,     \* the input file (never changes)
  fd,       \* this.fd
  header,   \* this.header
  FAT,      \* this.FAT
  miniFAT,  \* this.miniFAT
  dir,      \* this.dir
  work,     \* the constructor's work queue (its _task; its tasks are fixed)
  pwork,    \* the work queue of the running phase (_tasks, _task)
  ticks,    \* callbacks handed to process.nextTick, in order
  reads,    \* fs.read calls that have not completed yet
  cbCalls,  \* what open's callback was invoked with, in order
  crashed,  \* an exception escaped a callback
  hung,     \* a loop that never ends is running
  streams,  \* the streams getStream created, in order of creation
  calls,    \* the caller's calls: how many of each, and the last one's result
  openReads, \* number of fs.read calls issued on behalf of open
  bufProps, \* the bytes of a property-set stream from a property's offset on
  prop      \* the property item decoded from bufProps

vars == <<rev, file, fd, header, FAT, miniFAT, dir, work, pwork, ticks, reads,
          cbCalls, crashed, hung, streams, calls, openReads, bufProps, prop>>

(***************************************************************************)
(* Bounds of the model.                                                    *)
(***************************************************************************)
MaxGetStream == 1   \* getStream calls the caller makes
MaxFind == 1        \* findStream calls the caller makes
MaxId == 4          \* the caller passes directory indices 0..MaxId

(***************************************************************************)
(* Program constants.                                                      *)
(***************************************************************************)
\* The special SECT values.  A 32-bit word is held as the integer with the
\* same bit pattern in two's complement (the integers of the model checker
\* are 32 bits wide): 0xFFFFFFFE is -2.  lib/compound/index.js reads words
\* signed (getIntLE) and declares the constants as -4..-1; part_000 reads
\* them unsigned (readUInt32) and declares 0xFFFFFFFC..0xFFFFFFFF.  The two
\* readings agree on every test the parser makes on a word: equality with a
\* sentinel, and use as an array index (a sentinel is outside every array).
DIFSECT == -4
FATSECT == -3
ENDOFCHAIN == -2
FREESECT == -1
STGTY_INVALID == 0
STGTY_STORAGE == 1
STGTY_STREAM == 2
STGTY_ROOT == 5
HeaderSize == 512
DirEntrySize == 128
\* the bounds of the slot loop of _parseHeader: for (i=76; i<436; i+=4)
FATSlotStart == 76
FATSlotEnd == 436

RevCfb == "part_000"
RevLib == "lib/compound/index.js"
Revs == {RevCfb, RevLib}

Undef == "undefined"    \* the JavaScript value undefined
NoErr == "none"

Magic == <<208, 207, 17, 224, 161, 177, 26, 225>>

(***************************************************************************)
(* The input files.  A file is described by a few knobs; its bytes follow  *)
(* from them.  Layout (sector numbers): 0 the FAT sector, 1 and 2 the      *)
(* directory chain, 3 the mini-FAT sector, 4 the mini-stream (root.sect),  *)
(* 5 and 6 the chain of the big stream, 7 and 8 the DIFAT chain, 9 a FAT   *)
(* sector of free entries that DIFAT sector 7 lists in its first word. The *)
(* mini-FAT holds the chain 0 -> 1 of "ab" and a one-sector chain at 5.    *)
(* Directory: 0 the root, 1 the stream "ab" (in the mini-stream; empty,    *)
(* with start sector ENDOFCHAIN, when its size is 0), 2 the                *)
(* stream "Cd" (in FAT sectors; a property set when its first name byte is *)
(* 5), 3 the storage "S", 4 the stream "AB" (second directory sector).     *)
(* nest: the root holds only "S" and "S" holds "ab" and "Cd", so that the  *)
(* storage's record comes after the records of its children.              *)
(* hole: the fourth record of the first directory sector has type 0       *)
(* (INVALID) while the second directory sector still starts with "AB".     *)
(* link: the right link of "ab" is FREESECT ("ok"), or 2, which closes the *)
(* cycle "Cd" -> "ab" -> "Cd" ("cycle"), or 9, past the last record        *)
(* ("outside").                                                            *)
(* slots: the number of FAT sectors the header lists.                      *)
(* dotted: the name field of "S" holds the bytes C4 B0 instead.            *)
(* cut: a chain leaves the table (FAT word 200 after the first sector of   *)
(* the directory, the mini-FAT or the big stream), or the big stream's     *)
(* chain links sector 5 to itself ("loop").                                *)
(* propAb: the name of "ab" begins with the byte 5 of a property set.      *)
(* propBad: the bytes of "Cd" are no property set the decoder can walk    *)
(* (an item of type VT_BLOB whose count is 0xFFFFFFFF).                    *)
(***************************************************************************)
Base ==
  [hdr |-> "ok", major |-> 3, sectorShift |-> 9, miniShift |-> 6,
   maxMini |-> 512, dif |-> 0, dirOn |-> TRUE, miniOn |-> TRUE,
   fatOn |-> TRUE, tiny |-> 100, big |-> 600, prop |-> FALSE, twoDir |-> FALSE,
   propBad |-> FALSE, cut |-> "none", nest |-> FALSE, dotted |-> FALSE, slots |-> 1, hole |-> FALSE, link |-> "ok",
   propAb |-> FALSE]

Files ==
  { Base,
    [Base EXCEPT !.hdr = "short"],
    [Base EXCEPT !.hdr = "magic1"],
    [Base EXCEPT !.hdr = "magic8"],
    [Base EXCEPT !.major = 4],
    [Base EXCEPT !.dif = 1],
    [Base EXCEPT !.dif = 2],
    [Base EXCEPT !.dirOn = FALSE],
    [Base EXCEPT !.miniOn = FALSE, !.tiny = 0],
    [Base EXCEPT !.fatOn = FALSE],
    [Base EXCEPT !.tiny = 128],
    [Base EXCEPT !.tiny = 64],
    [Base EXCEPT !.big = 512],
    [Base EXCEPT !.big = 1024],
    [Base EXCEPT !.prop = TRUE],
    [Base EXCEPT !.prop = TRUE, !.big = 1024],
    [Base EXCEPT !.prop = TRUE, !.big = 1024, !.propBad = TRUE],
    [Base EXCEPT !.propAb = TRUE],
    [Base EXCEPT !.twoDir = TRUE],
    [Base EXCEPT !.cut = "dir"],
    [Base EXCEPT !.cut = "mini"],
    [Base EXCEPT !.cut = "stream"],
    [Base EXCEPT !.cut = "loop"],
    [Base EXCEPT !.nest = TRUE],
    [Base EXCEPT !.dotted = TRUE],
    [Base EXCEPT !.twoDir = TRUE, !.hole = TRUE] }

\* The bytes a read of 512 bytes at offset 0 delivers, as far as the header
\* reader looks at them.
FileHeaderBytesRead(f) == IF f.hdr = "short" THEN 100 ELSE HeaderSize
FileMagic(f) ==
  IF f.hdr = "magic1" THEN [Magic EXCEPT ![1] = 0]
  ELSE IF f.hdr = "magic8" THEN [Magic EXCEPT ![8] = 0]
  ELSE Magic
FileSectDir(f) == IF f.dirOn THEN 1 ELSE ENDOFCHAIN
FileSectMiniFAT(f) == IF f.miniOn THEN 3 ELSE ENDOFCHAIN
FileSectDIF(f) == IF f.dif = 0 THEN ENDOFCHAIN ELSE 7
FileMinor(f) == 62
\* the header's FAT-sector slots, bytes 76..511: the first f.slots of them
\* name FAT sectors (sector 0, then sectors of free entries from 9 on), the
\* others hold FREESECT
HeaderSlots == (HeaderSize - FATSlotStart) \div 4
FileFATSlots(f) ==
  [k \in 1..HeaderSlots |->
     IF ~f.fatOn \/ k > f.slots THEN FREESECT
     ELSE IF k = 1 THEN 0 ELSE 8 + k]

CeilDiv(a, b) == (a + b - 1) \div b

FileSectorSize(f) == 2 ^ f.sectorShift
FileMiniSectorSize(f) == 2 ^ f.miniShift
WordsPerSector(f) == FileSectorSize(f) \div 4

\* the 32-bit words of a sector, unsigned; cut names the chain (directory,
\* mini-FAT, stream "Cd") whose second link is 200, past the end of the one-sector table
FileWords(f, s) ==
  [k \in 1..WordsPerSector(f) |->
     CASE s = 0 ->
            (CASE k - 1 = 0 -> FATSECT
               [] k - 1 = 1 ->
                    IF f.cut = "dir" THEN 200
                    ELSE IF f.twoDir THEN 2 ELSE ENDOFCHAIN
               [] k - 1 = 3 -> IF f.cut = "mini" THEN 200 ELSE ENDOFCHAIN
               [] k - 1 \in {2, 4, 6} -> ENDOFCHAIN
               [] k - 1 = 5 ->
                    IF f.cut = "stream" THEN 200
                    ELSE IF f.cut = "loop" THEN 5
                    ELSE IF CeilDiv(f.big, FileSectorSize(f)) > 1 THEN 6
                    ELSE ENDOFCHAIN
               [] k - 1 \in {7, 8} -> DIFSECT
               [] OTHER -> FREESECT)
       [] s = 3 ->
            (CASE k - 1 = 0 ->
                    IF CeilDiv(f.tiny, FileMiniSectorSize(f)) > 1 THEN 1 ELSE ENDOFCHAIN
               [] k - 1 \in {1, 5} -> ENDOFCHAIN
               [] OTHER -> FREESECT)
       [] s = 7 ->
            IF k = WordsPerSector(f)
              THEN (IF f.dif = 2 THEN 8 ELSE ENDOFCHAIN)
              ELSE IF k = 1 THEN 9 ELSE FREESECT
       [] s = 8 ->
            IF k = WordsPerSector(f) THEN ENDOFCHAIN ELSE FREESECT
       [] s >= 9 -> FREESECT
       [] OTHER -> 0]

\* names as UTF-16LE bytes (the zero padding of the 64-byte field left out)
NameRoot == <<82, 0>>
NameAb == <<97, 0, 98, 0>>
NameCd == <<67, 0, 100, 0>>
NamePropCd == <<5, 0, 67, 0, 100, 0>>
NamePropAb == <<5, 0, 97, 0, 98, 0>>
NameS == <<83, 0>>
NameDotted == <<196, 176>>   \* the bytes utf8 decoding turns into U+0130
NameAB == <<65, 0, 66, 0>>

RawEntry(name, type, left, right, child, sect, size) ==
  [name |-> name, nameLen |-> Len(name) + 2, type |-> type, left |-> left,
   right |-> right, child |-> child, sect |-> sect, size |-> size]

InvalidEntry == RawEntry(<<>>, STGTY_INVALID, 0, 0, 0, 0, 0)

\* the 128-byte directory records of a sector, as far as the reader looks
FileEntries(f, s) ==
  CASE s = 1 ->
         << RawEntry(NameRoot, STGTY_ROOT, FREESECT, FREESECT,
                     IF f.nest THEN 3 ELSE 2, 4, 512),
            RawEntry(IF f.propAb THEN NamePropAb ELSE NameAb, STGTY_STREAM,
                     FREESECT,
                     IF f.link = "cycle" THEN 2
                     ELSE IF f.link = "outside" THEN 9 ELSE FREESECT,
                     0,
                     IF f.tiny = 0 THEN ENDOFCHAIN ELSE 0, f.tiny),
            RawEntry(IF f.prop THEN NamePropCd ELSE NameCd, STGTY_STREAM,
                     1, IF f.nest \/ f.hole THEN FREESECT ELSE 3, 0, 5, f.big),
            IF f.hole THEN InvalidEntry
            ELSE RawEntry(IF f.dotted THEN NameDotted ELSE NameS, STGTY_STORAGE,
                          FREESECT, FREESECT,
                          IF f.twoDir THEN 4 ELSE IF f.nest THEN 2 ELSE FREESECT,
                          0, 0) >>
    [] s = 2 ->
         << RawEntry(NameAB, STGTY_STREAM, FREESECT, FREESECT, 0, 5, f.big),
            InvalidEntry, InvalidEntry, InvalidEntry >>
    [] OTHER -> << InvalidEntry, InvalidEntry, InvalidEntry, InvalidEntry >>

\* whether the decoder's walk over the bytes of the property-set stream
\* meets only counts and offsets that lie inside the stream
FilePropsWellFormed(f) == ~f.propBad

\* the sector a read at file offset pos delivers
SectorAt(pos, bytes) == (pos - HeaderSize) \div bytes

(***************************************************************************)
(* Pure parts of the parser.                                               *)
(***************************************************************************)
Range(q) == { q[i] : i \in DOMAIN q }
Min(a, b) == IF a < b THEN a ELSE b
Max(a, b) == IF a > b THEN a ELSE b

NoHeader ==
  [def |-> FALSE, major |-> 0, sectorSize |-> 0, miniSectorSize |-> 0,
   sectDir |-> 0, maxMiniStreamSize |-> 0, sectMiniFAT |-> 0, sectDIF |-> 0,
   FATsects |-> <<>>]
NoTable == [def |-> FALSE, a |-> <<>>]
NoDir == [state |-> "undefined", ents |-> <<>>]

\* a magic test that forgets the eighth byte
MagicOkFirstSeven(m) == SubSeq(m, 1, 7) = SubSeq(Magic, 1, 7)

\* the magic test of _parseHeader
MagicOk(m) == m = Magic

\* for (i=76; i<436; i+=4): the slots read, up to the first sentinel
\* (slot k is at offset 76 + 4 * (k - 1); the loop stores slot k when it
\* reaches it, that is when no slot up to k holds ENDOFCHAIN or FREESECT)
FATsectsFrom(r, slots) ==
  LET stored == { k \in 1..Len(slots) :
                    /\ FATSlotStart + 4 * (k - 1) < FATSlotEnd
                    /\ \A j \in 1..k :
                         slots[j] # ENDOFCHAIN /\ slots[j] # FREESECT }
  IN  SubSeq(slots, 1, Cardinality(stored))

\* self.header = {...} of _parseHeader
ParseHeader(r, f) ==
  [def |-> TRUE,
   major |-> IF r = RevCfb THEN f.major ELSE FileMinor(f),
   sectorSize |-> 2 ^ f.sectorShift,
   miniSectorSize |-> 2 ^ f.miniShift,
   sectDir |-> FileSectDir(f),
   maxMiniStreamSize |-> f.maxMini,
   sectMiniFAT |-> FileSectMiniFAT(f),
   sectDIF |-> FileSectDIF(f),
   FATsects |-> FATsectsFrom(r, FileFATSlots(f))]

\* for (j=0; j<bytesRead; j+=4) table.push(read32(j))
ReadWords(r, f, pos, bytes, bytesRead) ==
  [k \in 1..(bytesRead \div 4) |-> FileWords(f, SectorAt(pos, bytes))[k]]

\* table[sect], a JavaScript array lookup: undefined outside the array
InTable(table, sect) == sect \in 0..(Len(table.a) - 1)

\* while (sect !== ENDOFCHAIN) { ...; sect = table[sect]; }
\* "ok": the loop ends, sects are the sectors it visited;
\* "throw": the table is undefined, the lookup throws a TypeError;
\* "loop": the loop never ends (the chain revisits a sector, or leaves the
\*         table: then sect is undefined, which is never ENDOFCHAIN).
RECURSIVE ChainWalk(_, _, _, _)
ChainWalk(r, table, sect, acc) ==
  IF sect = ENDOFCHAIN THEN [res |-> "ok", sects |-> acc]
  ELSE IF ~table.def THEN [res |-> "throw", sects |-> Append(acc, sect)]
  ELSE IF ~InTable(table, sect) \/ sect \in Range(acc)
    THEN [res |-> "loop", sects |-> Append(acc, sect)]
  ELSE ChainWalk(r, table, table.a[sect + 1], Append(acc, sect))

\* 512 + sect * bytes
SectorPos(sect, bytes) == HeaderSize + sect * bytes

\* buf.toString('utf8', ...): a byte below 128 is its character, a lead byte
\* 0xC2..0xDF with a continuation byte is a two-byte character, any other
\* byte decodes to U+FFFD
RECURSIVE Utf8Decode(_)
Utf8Decode(b) ==
  IF b = <<>> THEN <<>>
  ELSE IF b[1] < 128 THEN <<b[1]>> \o Utf8Decode(Tail(b))
  ELSE IF b[1] \in 194..223 /\ Len(b) > 1 /\ b[2] \in 128..191
    THEN <<(b[1] - 192) * 64 + (b[2] - 128)>> \o Utf8Decode(Tail(Tail(b)))
  ELSE <<65533>> \o Utf8Decode(Tail(b))

\* buf.toString('utf8', o, o+63).substring(0, nameLen - 2)
\*    .replace(/[\x00-\x1F]/g, '')
NotControl(c) == c > 31
DecodeName(raw) ==
  LET str == Utf8Decode(raw.name)
  IN  SelectSeq(SubSeq(str, 1, Max(0, Min(Len(str), raw.nameLen - 2))),
                NotControl)

\* String.prototype.toUpperCase: the ASCII letters, and of the characters
\* with a special mapping U+00DF (to "SS"); U+0130 and U+0307 are their own
\* upper case
UpperChar(c) == IF c \in 97..122 THEN c - 32 ELSE c
UpperOf(c) == IF c = 223 THEN <<83, 83>> ELSE <<UpperChar(c)>>
RECURSIVE ToUpperCase(_)
ToUpperCase(n) ==
  IF n = <<>> THEN <<>> ELSE UpperOf(Head(n)) \o ToUpperCase(Tail(n))

\* String.prototype.toLowerCase: the ASCII letters, and U+0130, whose lower
\* case is "i" followed by U+0307
LowerOf(c) ==
  IF c \in 65..90 THEN <<c + 32>>
  ELSE IF c = 304 THEN <<105, 775>>
  ELSE <<c>>
RECURSIVE ToLowerCase(_)
ToLowerCase(n) ==
  IF n = <<>> THEN <<>> ELSE LowerOf(Head(n)) \o ToLowerCase(Tail(n))

IsStorageLike(type) == type = STGTY_STORAGE \/ type = STGTY_ROOT
IsStreamLike(type) == type = STGTY_STREAM \/ type = STGTY_ROOT

\* the size versioning of part_000: TRUE when it throws
SizeThrows(r, hdr) ==
  /\ r = RevCfb
  /\ ~(hdr.major = 3 /\ hdr.sectorSize = 512)
  /\ ~(hdr.major = 4 /\ hdr.sectorSize = 4096)

\* entry.size: the low 32 bits; in part_000 on a version-4 file with
\* 4096-byte sectors readDouble of the 8 bytes, which for a size below 2^52
\* is a denormal number below 1 (no input of this model has such sectors).
EntrySize(r, hdr, raw) ==
  IF r = RevCfb /\ hdr.major = 4 /\ hdr.sectorSize = 4096 THEN 0
  ELSE raw.size

\* entry = {...} of _parseDir, with the fields set under the two type tests
MakeEntry(r, hdr, raw) ==
  [name |-> DecodeName(raw),
   hasType |-> TRUE, type |-> raw.type,
   hasLinks |-> TRUE, left |-> raw.left, right |-> raw.right,
   hasChild |-> IsStorageLike(raw.type),
   child |-> IF IsStorageLike(raw.type) THEN raw.child ELSE 0,
   hasChildren |-> FALSE, children |-> <<>>,
   hasSize |-> IsStreamLike(raw.type),
   sect |-> IF IsStreamLike(raw.type) THEN raw.sect ELSE 0,
   size |-> IF IsStreamLike(raw.type) THEN EntrySize(r, hdr, raw) ELSE 0,
   hasProps |-> FALSE]

\* buf[o] === 5: the first byte of the record is the first byte of the name
MarkerByte(raw) == IF Len(raw.name) > 0 THEN raw.name[1] ELSE 0

\* a task of a work queue, or a callback: a closure and what it closed over
Fn(kind, a, b) == [kind |-> kind, a |-> a, b |-> b]

\* the for loop over the entries of one directory sector: the entries
\* pushed to self.dir, the property-set tasks pushed to work._tasks, and
\* whether the loop threw
RECURSIVE ParseDirEntries(_, _, _, _, _, _)
ParseDirEntries(r, hdr, raws, i, ents, tasks) ==
  IF i >= hdr.sectorSize \div DirEntrySize \/ i >= Len(raws)
    THEN [ents |-> ents, tasks |-> tasks, threw |-> FALSE]
  ELSE IF raws[i + 1].type = 0
    THEN [ents |-> ents, tasks |-> tasks, threw |-> FALSE]
  ELSE LET raw == raws[i + 1]
           ents1 == Append(ents, MakeEntry(r, hdr, raw))
       IN  IF IsStreamLike(raw.type) /\ SizeThrows(r, hdr)
             THEN [ents |-> ents1, tasks |-> tasks, threw |-> TRUE]
           ELSE IF IsStreamLike(raw.type) /\ MarkerByte(raw) = 5
             THEN ParseDirEntries(r, hdr, raws, i + 1, ents1,
                    Append(tasks, Fn("prop", Len(ents1) - 1,
                                     EntrySize(r, hdr, raw))))
           ELSE ParseDirEntries(r, hdr, raws, i + 1, ents1, tasks)

\* One storage's walk of the tree lift: ids is the work list (its last
\* element is popped), each element a directory index or undefined (a link
\* read from an entry whose left/right were deleted already).
\* "ok": children collected; "throw": self.dir[cur] is undefined and
\* reading its .left throws; "loop": the links form a cycle.
Idx(v) == [def |-> TRUE, v |-> v]
NoIdx == [def |-> FALSE, v |-> 0]
LinkOf(has, v) == IF has THEN Idx(v) ELSE NoIdx

RECURSIVE LiftWalk(_, _, _, _, _)
LiftWalk(r, ents, ids, children, fuel) ==
  IF ids = <<>> THEN [res |-> "ok", children |-> children]
  ELSE IF fuel = 0 THEN [res |-> "loop", children |-> children]
  ELSE
    LET cur == ids[Len(ids)]
        rest == SubSeq(ids, 1, Len(ids) - 1)
    IN  IF cur.def /\ cur.v = FREESECT
          THEN LiftWalk(r, ents, rest, children, fuel - 1)
        ELSE IF ~cur.def \/ cur.v \notin 0..(Len(ents) - 1)
          THEN [res |-> "throw", children |-> children]
        ELSE
          LET e == ents[cur.v + 1]
              l == LinkOf(e.hasLinks, e.left)
              rt == LinkOf(e.hasLinks, e.right)
              ids1 == IF l # Idx(FREESECT) THEN Append(rest, l) ELSE rest
              ids2 == IF rt # Idx(FREESECT) THEN Append(ids1, rt) ELSE ids1
          IN  LiftWalk(r, ents, ids2, Append(children, cur.v), fuel - 1)

\* delete self.dir[i].child / .left / .right / .type
DeleteLinks(e) ==
  [e EXCEPT !.hasChild = FALSE, !.child = 0, !.hasLinks = FALSE, !.left = 0,
            !.right = 0, !.hasType = FALSE, !.type = 0]

\* self.dir[i].child !== -1: child was read by readUInt32, whose values are
\* 0..2^32-1, so the test never fails (FREESECT is 0xFFFFFFFF there)
IsMinusOne(v) == FALSE

\* the for loop of the tree-lift task, from entry i on
RECURSIVE LiftFrom(_, _, _)
LiftFrom(r, ents, i) ==
  IF i >= Len(ents) THEN [res |-> "ok", ents |-> ents]
  ELSE
    LET e == ents[i + 1]
    IN  IF e.hasChild /\ ~IsMinusOne(e.child)
          THEN LET w == LiftWalk(r, ents, <<Idx(e.child)>>, <<>>, 2 ^ (Len(ents) + 1))
               IN  IF w.res # "ok" THEN [res |-> w.res, ents |-> ents]
                   ELSE LiftFrom(r,
                          [ents EXCEPT ![i + 1] =
                             DeleteLinks([e EXCEPT !.hasChildren = TRUE,
                                                   !.children = w.children])],
                          i + 1)
          ELSE LiftFrom(r, [ents EXCEPT ![i + 1] = DeleteLinks(e)], i + 1)

(***************************************************************************)
(* deps/work (src/unnamed/part_001).  A work queue is its _tasks, its      *)
(* _task and its _cb.                                                      *)
(***************************************************************************)
NewWork(tasks, cb) == [tasks |-> tasks, task |-> 0, cb |-> cb]
NoWork == NewWork(<<>>, Fn("none", 0, 0))

\* a Work.prototype.next that forgets to advance _task
WorkNextKeepsTask(w) ==
  IF w.task < Len(w.tasks)
    THEN [fn |-> w.tasks[w.task + 1], w |-> w]
    ELSE [fn |-> w.cb, w |-> w]

\* Work.prototype.next without an error: the callback handed to
\* process.nextTick, and the queue afterwards
WorkNext(w) ==
  IF w.task < Len(w.tasks)
    THEN [fn |-> w.tasks[w.task + 1], w |-> [w EXCEPT !.task = @ + 1]]
    ELSE [fn |-> w.cb, w |-> w]

\* Work.prototype.go
WorkGo(w) == WorkNext([w EXCEPT !.task = 0])

\* the tasks of the constructor's queue
OpenTasks ==
  << Fn("parseHeader", 0, 0), Fn("parseFAT", 0, 0), Fn("maybeDIF", 0, 0),
     Fn("maybeDir", 0, 0), Fn("maybeMiniFAT", 0, 0) >>

(***************************************************************************)
(* getStream, up to the point where it hands the stream to its callback.   *)
(***************************************************************************)
NoStream ==
  [id |-> 0, owner |-> "none", isFAT |-> FALSE, bytes |-> 0, streamSize |-> 0,
   curSize |-> 0, w |-> NoWork, events |-> <<>>, offset |-> 0,
   fdAtCall |-> "none"]

\* a routing test with a strict comparison
IsFATStrict(size, maxMini) == size > maxMini

\* isFAT = (this.dir[id].size >= this.header.maxMiniStreamSize)
IsFAT(size, maxMini) == size >= maxMini

\* start = 512 + sect * bytes, or inside the root entry's mini-stream
BlockStart(isFAT, sect, bytes, rootSect, sectorSize) ==
  IF isFAT THEN HeaderSize + (sect * bytes)
  ELSE HeaderSize + (rootSect * sectorSize + sect * bytes)

\* the read tasks getStream pushes, one per sector of the chain
BlockTasks(sn, isFAT, sects, bytes, rootSect, sectorSize) ==
  [k \in 1..Len(sects) |->
     Fn("readBlock", sn, BlockStart(isFAT, sects[k], bytes, rootSect, sectorSize))]

\* getStream(id, cb) called when the parser holds hdr, fat, mfat, d and sn
\* streams exist: "throw" (a TypeError), "loop" (the chain walk never
\* ends), "err" (cb gets the no-such-stream error) or "stream".
GetStreamCall(r, hdr, fat, mfat, d, sn, id, owner) ==
  IF d.state = "undefined" THEN [res |-> "throw", stream |-> NoStream]
  ELSE IF d.state = "root" THEN [res |-> "err", stream |-> NoStream]
  ELSE IF id \notin 0..(Len(d.ents) - 1) THEN [res |-> "err", stream |-> NoStream]
  ELSE IF ~d.ents[id + 1].hasType \/ d.ents[id + 1].type # STGTY_STREAM
    THEN [res |-> "err", stream |-> NoStream]
  ELSE
    LET e == d.ents[id + 1]
        isFAT == IsFAT(e.size, hdr.maxMiniStreamSize)
        bytes == IF isFAT THEN hdr.sectorSize ELSE hdr.miniSectorSize
        walk == ChainWalk(r, IF isFAT THEN fat ELSE mfat, e.sect, <<>>)
    IN  IF walk.res # "ok" THEN [res |-> walk.res, stream |-> NoStream]
        ELSE [res |-> "stream",
              stream |->
                [id |-> id, owner |-> owner, isFAT |-> isFAT, bytes |-> bytes,
                 streamSize |-> e.size,
                 curSize |-> Len(walk.sects) * bytes,
                 w |-> NewWork(BlockTasks(sn + 1, isFAT, walk.sects, bytes,
                                          d.ents[1].sect, hdr.sectorSize),
                               Fn("emitEnd", sn + 1, 0)),
                 events |-> <<>>, offset |-> 0, fdAtCall |-> "none"]]

\* the length of the chunk a block read emits:
\* curSize > streamSize ? buf.slice(0, curSize - streamSize) : buf
ChunkLen(curSize, streamSize, bytes) ==
  IF curSize > streamSize THEN Min(curSize - streamSize, bytes) ELSE bytes

\* a comparison that forgets name = name.toUpperCase()
FirstMatchRawName(ents, name) ==
  LET hits == { i \in 0..(Len(ents) - 1) : ToUpperCase(ents[i + 1].name) = name }
  IN  IF hits = {} THEN -1 ELSE CHOOSE i \in hits : \A j \in hits : i <= j

\* findStream(name): -1 or the index; "throw" when this.dir is undefined
FirstMatch(ents, name) ==
  LET hits == { i \in 0..(Len(ents) - 1) :
                  ToUpperCase(ents[i + 1].name) = ToUpperCase(name) }
  IN  IF hits = {} THEN -1 ELSE CHOOSE i \in hits : \A j \in hits : i <= j

FindStreamCall(d, name) ==
  IF d.state = "undefined" THEN [res |-> "throw", ret |-> -1]
  ELSE IF d.state = "root" THEN [res |-> "ok", ret |-> -1]
  ELSE [res |-> "ok", ret |-> FirstMatch(d.ents, name)]

(***************************************************************************)
(* The state machine.                                                      *)
(***************************************************************************)
Names == { <<97, 98>>, <<65, 66>>, <<67, 100>>, <<120>>, <<304>> }

NoCalls ==
  [n |-> [op \in {"getStream", "findStream", "close"} |-> 0],
   last |-> [op |-> "none", id |-> 0, name |-> <<>>, res |-> "none", ret |-> 0]]

\* no property item has been decoded
NoProp == [def |-> FALSE]

Init ==
  /\ rev \in Revs
  /\ file \in Files
  /\ fd = "unopened"
  /\ header = NoHeader
  /\ FAT = NoTable
  /\ miniFAT = NoTable
  /\ dir = NoDir
  /\ work = NewWork(OpenTasks, Fn("callback", 0, 0))
  /\ pwork = NoWork
  /\ ticks = <<>>
  /\ reads = {}
  /\ cbCalls = <<>>
  /\ crashed = FALSE
  /\ hung = FALSE
  /\ streams = <<>>
  /\ calls = NoCalls
  /\ openReads = 0
  /\ bufProps = <<>>
  /\ prop = NoProp

Running == ~crashed /\ ~hung
TickIs(kind) == Running /\ ticks # <<>> /\ Head(ticks).kind = kind

\* a read that succeeds on a closed handle too
ReadAnyHandle(kind, a, pos, len) ==
  [kind |-> kind, a |-> a, pos |-> pos, len |-> len, live |-> TRUE]

\* fs.read(self.fd, buf, 0, len, pos, ...); live: the handle is open when
\* the read is issued (a read on a closed handle fails)
Read(kind, a, pos, len) ==
  [kind |-> kind, a |-> a, pos |-> pos, len |-> len, live |-> fd = "open"]
Outcomes(rd) == IF rd.live THEN BOOLEAN ELSE {FALSE}

\* process.nextTick(fn) after the running tick was taken off the queue
AfterTick(fn) == Append(Tail(ticks), fn)

\* fs.open(path, 'r', ...) completes: with an error callback(err) is called,
\* otherwise self.fd = fd and work.go()
FsOpen ==
  /\ Running /\ fd = "unopened" /\ cbCalls = <<>>
  /\ \E ok \in BOOLEAN :
       IF ok
         THEN /\ fd' = "open"
              /\ work' = WorkGo(work).w
              /\ ticks' = Append(ticks, WorkGo(work).fn)
              /\ UNCHANGED cbCalls
         ELSE /\ fd' = "failed"
              /\ cbCalls' = Append(cbCalls, "ENOENT")
              /\ UNCHANGED <<work, ticks>>
  /\ UNCHANGED <<rev, file, bufProps, prop, header, FAT, miniFAT, dir, pwork, reads, crashed,
                 hung, streams, calls, openReads>>

\* a Work.prototype.next that reports the error and still goes on
OuterNextNoReturn(err, tk) ==
  /\ cbCalls' = IF err # NoErr THEN Append(cbCalls, err) ELSE cbCalls
  /\ ticks' = Append(tk, WorkNext(work).fn)
  /\ work' = WorkNext(work).w

\* Work.prototype.next of the constructor's queue, called by a phase:
\* with an error the callback is invoked at once, otherwise the next task
\* (or the callback) goes to process.nextTick
OuterNext(err, tk) ==
  IF err # NoErr
    THEN /\ cbCalls' = Append(cbCalls, err)
         /\ ticks' = tk
         /\ UNCHANGED work
    ELSE /\ ticks' = Append(tk, WorkNext(work).fn)
         /\ work' = WorkNext(work).w
         /\ UNCHANGED cbCalls

\* a header phase that reports completion as soon as its read is issued
TickParseHeaderNoWait ==
  /\ TickIs("parseHeader")
  /\ OuterNext(NoErr, Tail(ticks))
  /\ reads' = reads \cup {Read("header", 0, 0, HeaderSize)}
  /\ openReads' = openReads + 1
  /\ UNCHANGED <<rev, file, bufProps, prop, fd, header, FAT, miniFAT, dir, pwork, crashed, hung,
                 streams, calls>>

\* function() { self._parseHeader(work.next.bind(work)); }: issues the read
\* of 512 bytes at offset 0
TickParseHeader ==
  /\ TickIs("parseHeader")
  /\ ticks' = Tail(ticks)
  /\ reads' = reads \cup {Read("header", 0, 0, HeaderSize)}
  /\ openReads' = openReads + 1
  /\ UNCHANGED <<rev, file, bufProps, prop, fd, header, FAT, miniFAT, dir, work, pwork, cbCalls,
                 crashed, hung, streams, calls>>

\* the completion of _parseHeader's read
HeaderRead ==
  /\ Running
  /\ \E rd \in reads : \E ok \in Outcomes(rd) :
       /\ rd.kind = "header"
       /\ reads' = reads \ {rd}
       /\ IF ~ok
            THEN /\ OuterNext("EIO", ticks)
                 /\ UNCHANGED header
          ELSE IF FileHeaderBytesRead(file) # HeaderSize \/ ~MagicOk(FileMagic(file))
            THEN /\ OuterNext("InvalidFormat", ticks)
                 /\ UNCHANGED header
          ELSE /\ header' = ParseHeader(rev, file)
               /\ OuterNext(NoErr, ticks)
  /\ UNCHANGED <<rev, file, bufProps, prop, fd, FAT, miniFAT, dir, pwork, crashed, hung,
                 streams, calls, openReads>>

\* the tasks _parseFAT pushes: one read per header-listed FAT sector
FATTasks(hdr) ==
  [i \in 1..Len(hdr.FATsects) |->
     Fn("readFAT", SectorPos(hdr.FATsects[i], hdr.sectorSize), 0)]

\* function() { self._parseFAT(work.next.bind(work)); }
TickParseFAT ==
  /\ TickIs("parseFAT")
  /\ LET w == NewWork(FATTasks(header), Fn("outerNext", 0, 0))
     IN  /\ pwork' = WorkGo(w).w
         /\ ticks' = AfterTick(WorkGo(w).fn)
  /\ UNCHANGED <<rev, file, bufProps, prop, fd, header, FAT, miniFAT, dir, work, reads, cbCalls,
                 crashed, hung, streams, calls, openReads>>

\* a phase's queue ran dry: its cb, work.next.bind(work), runs
TickOuterNext ==
  /\ TickIs("outerNext")
  /\ OuterNext(NoErr, Tail(ticks))
  /\ UNCHANGED <<rev, file, bufProps, prop, fd, header, FAT, miniFAT, dir, pwork, reads,
                 crashed, hung, streams, calls, openReads>>

\* open's callback runs (without arguments)
TickCallback ==
  /\ TickIs("callback")
  /\ ticks' = Tail(ticks)
  /\ cbCalls' = Append(cbCalls, NoErr)
  /\ UNCHANGED <<rev, file, bufProps, prop, fd, header, FAT, miniFAT, dir, work, pwork, reads,
                 crashed, hung, streams, calls, openReads>>

\* a read task of the FAT, directory or mini-FAT phase, or of _parseDIF
\* (whose position is the closure variable pos, kept in the task)
TickPhaseRead ==
  /\ Running /\ ticks # <<>>
  /\ Head(ticks).kind \in {"readFAT", "readDir", "readMini", "readDIF"}
  /\ ticks' = Tail(ticks)
  /\ reads' = reads \cup
       {Read(Head(ticks).kind, 0, Head(ticks).a, header.sectorSize)}
  /\ openReads' = openReads + 1
  /\ UNCHANGED <<rev, file, bufProps, prop, fd, header, FAT, miniFAT, dir, work, pwork, cbCalls,
                 crashed, hung, streams, calls>>

\* bytesRead of a sector read: the whole sector
BytesRead(rd) == rd.len

\* the completion of a read of _parseFAT
FATRead ==
  /\ Running
  /\ \E rd \in reads : \E ok \in Outcomes(rd) :
       /\ rd.kind = "readFAT"
       /\ reads' = reads \ {rd}
       /\ IF ~ok
            THEN /\ OuterNext("EIO", ticks)
                 /\ UNCHANGED <<FAT, pwork>>
            ELSE /\ FAT' = [def |-> TRUE,
                            a |-> FAT.a \o ReadWords(rev, file, rd.pos, rd.len,
                                                     BytesRead(rd))]
                 /\ pwork' = WorkNext(pwork).w
                 /\ ticks' = Append(ticks, WorkNext(pwork).fn)
                 /\ UNCHANGED <<work, cbCalls>>
  /\ UNCHANGED <<rev, file, bufProps, prop, fd, header, miniFAT, dir, crashed, hung, streams,
                 calls, openReads>>

\* the third task: _parseDIF when header.sectDIF is not ENDOFCHAIN.
\* part_000 queues one read task; in lib/compound/index.js _parseDIF has an
\* empty body and never calls its callback.
TickMaybeDIF ==
  /\ TickIs("maybeDIF")
  /\ IF header.sectDIF # ENDOFCHAIN
       THEN IF rev = RevCfb
              THEN LET w == NewWork(
                              <<Fn("readDIF",
                                   SectorPos(header.sectDIF, header.sectorSize), 0)>>,
                              Fn("outerNext", 0, 0))
                   IN  /\ pwork' = WorkGo(w).w
                       /\ ticks' = AfterTick(WorkGo(w).fn)
                       /\ UNCHANGED <<work, cbCalls>>
              ELSE /\ ticks' = Tail(ticks)
                   /\ UNCHANGED <<work, pwork, cbCalls>>
       ELSE /\ OuterNext(NoErr, Tail(ticks))
            /\ UNCHANGED pwork
  /\ UNCHANGED <<rev, file, bufProps, prop, fd, header, FAT, miniFAT, dir, reads, crashed, hung,
                 streams, calls, openReads>>

\* the completion of _parseDIF's read: every word but the last is pushed to
\* self.FAT; a last word other than ENDOFCHAIN pushes thisFn, which is the
\* this of a process.nextTick callback and not the task function
DIFRead ==
  /\ Running
  /\ \E rd \in reads : \E ok \in Outcomes(rd) :
       /\ rd.kind = "readDIF"
       /\ reads' = reads \ {rd}
       /\ IF ~ok
            THEN /\ OuterNext("EIO", ticks)
                 /\ UNCHANGED <<FAT, pwork, crashed>>
          ELSE IF ~FAT.def /\ BytesRead(rd) > 4
            THEN /\ crashed' = TRUE
                 /\ UNCHANGED <<FAT, pwork, work, ticks, cbCalls>>
          ELSE LET ws == ReadWords(rev, file, rd.pos, rd.len, BytesRead(rd))
                   last == ws[Len(ws)]
                   w1 == IF last # ENDOFCHAIN
                           THEN [pwork EXCEPT !.tasks = Append(@, Fn("notFn", 0, 0))]
                           ELSE pwork
               IN  /\ FAT' = [FAT EXCEPT !.a = @ \o SubSeq(ws, 1, Len(ws) - 1)]
                   /\ pwork' = WorkNext(w1).w
                   /\ ticks' = Append(ticks, WorkNext(w1).fn)
                   /\ UNCHANGED <<work, cbCalls, crashed>>
  /\ UNCHANGED <<rev, file, bufProps, prop, fd, header, miniFAT, dir, hung, streams, calls,
                 openReads>>

\* process.nextTick runs a value that is not a function: a TypeError
TickNotFn ==
  /\ TickIs("notFn")
  /\ ticks' = Tail(ticks)
  /\ crashed' = TRUE
  /\ UNCHANGED <<rev, file, bufProps, prop, fd, header, FAT, miniFAT, dir, work, pwork, reads,
                 cbCalls, hung, streams, calls, openReads>>

\* the tasks a chain-walking phase pushes: one read per sector of the chain
ChainTasks(kind, sects, bytes) ==
  [k \in 1..Len(sects) |-> Fn(kind, SectorPos(sects[k], bytes), 0)]

\* _parseDir or _parseMiniFAT up to work.go(): the chain is walked through
\* self.FAT while the tasks are pushed
StartChainPhase(kind, sect0, extra) ==
  LET walk == ChainWalk(rev, FAT, sect0, <<>>)
      w == NewWork(ChainTasks(kind, walk.sects, header.sectorSize) \o extra,
                   Fn("outerNext", 0, 0))
  IN  IF walk.res = "throw"
        THEN /\ crashed' = TRUE
             /\ ticks' = Tail(ticks)
             /\ UNCHANGED <<pwork, hung>>
      ELSE IF walk.res = "loop"
        THEN /\ hung' = TRUE
             /\ ticks' = Tail(ticks)
             /\ UNCHANGED <<pwork, crashed>>
      ELSE /\ pwork' = WorkGo(w).w
           /\ ticks' = AfterTick(WorkGo(w).fn)
           /\ UNCHANGED <<crashed, hung>>

\* the fourth task: part_000 skips the directory phase when header.sectDir
\* is ENDOFCHAIN, lib/compound/index.js always calls _parseDir; part_000
\* pushes the tree-lift task after the read tasks
TickMaybeDir ==
  /\ TickIs("maybeDir")
  /\ IF rev = RevCfb /\ header.sectDir = ENDOFCHAIN
       THEN /\ OuterNext(NoErr, Tail(ticks))
            /\ UNCHANGED <<pwork, crashed, hung>>
       ELSE /\ StartChainPhase("readDir", header.sectDir,
                  IF rev = RevCfb THEN <<Fn("lift", 0, 0)>> ELSE <<>>)
            /\ UNCHANGED <<work, cbCalls>>
  /\ UNCHANGED <<rev, file, bufProps, prop, fd, header, FAT, miniFAT, dir, reads, streams,
                 calls, openReads>>

\* the completion of a read of _parseDir
DirRead ==
  /\ Running
  /\ \E rd \in reads : \E ok \in Outcomes(rd) :
       /\ rd.kind = "readDir"
       /\ reads' = reads \ {rd}
       /\ IF ~ok
            THEN /\ OuterNext("EIO", ticks)
                 /\ UNCHANGED <<dir, pwork, crashed>>
            ELSE LET p == ParseDirEntries(rev, header,
                            FileEntries(file, SectorAt(rd.pos, rd.len)), 0,
                            dir.ents, <<>>)
                     w1 == [pwork EXCEPT !.tasks = @ \o p.tasks]
                 IN  /\ dir' = [state |-> "array", ents |-> p.ents]
                     /\ IF p.threw
                          THEN /\ crashed' = TRUE
                               /\ UNCHANGED <<pwork, ticks>>
                          ELSE /\ pwork' = WorkNext(w1).w
                               /\ ticks' = Append(ticks, WorkNext(w1).fn)
                               /\ UNCHANGED crashed
                     /\ UNCHANGED <<work, cbCalls>>
  /\ UNCHANGED <<rev, file, bufProps, prop, fd, header, FAT, miniFAT, hung, streams, calls,
                 openReads>>

\* the tree-lift task of part_000
TickLift ==
  /\ TickIs("lift")
  /\ LET l == LiftFrom(rev, dir.ents, 0)
     IN  IF l.res = "throw"
           THEN /\ crashed' = TRUE
                /\ ticks' = Tail(ticks)
                /\ UNCHANGED <<dir, pwork, hung>>
         ELSE IF l.res = "loop"
           THEN /\ hung' = TRUE
                /\ ticks' = Tail(ticks)
                /\ UNCHANGED <<dir, pwork, crashed>>
         ELSE /\ dir' = IF l.ents = <<>> THEN NoDir
                        ELSE [state |-> "root", ents |-> l.ents]
              /\ pwork' = WorkNext(pwork).w
              /\ ticks' = AfterTick(WorkNext(pwork).fn)
              /\ UNCHANGED <<crashed, hung>>
  /\ UNCHANGED <<rev, file, bufProps, prop, fd, header, FAT, miniFAT, work, reads, cbCalls,
                 streams, calls, openReads>>

\* the fifth task: _parseMiniFAT when header.sectMiniFAT is not ENDOFCHAIN
TickMaybeMiniFAT ==
  /\ TickIs("maybeMiniFAT")
  /\ IF header.sectMiniFAT # ENDOFCHAIN
       THEN /\ StartChainPhase("readMini", header.sectMiniFAT, <<>>)
            /\ UNCHANGED <<work, cbCalls>>
       ELSE /\ OuterNext(NoErr, Tail(ticks))
            /\ UNCHANGED <<pwork, crashed, hung>>
  /\ UNCHANGED <<rev, file, bufProps, prop, fd, header, FAT, miniFAT, dir, reads, streams,
                 calls, openReads>>

\* the completion of a read of _parseMiniFAT
MiniFATRead ==
  /\ Running
  /\ \E rd \in reads : \E ok \in Outcomes(rd) :
       /\ rd.kind = "readMini"
       /\ reads' = reads \ {rd}
       /\ IF ~ok
            THEN /\ OuterNext("EIO", ticks)
                 /\ UNCHANGED <<miniFAT, pwork>>
            ELSE /\ miniFAT' = [def |-> TRUE,
                                a |-> miniFAT.a \o ReadWords(rev, file, rd.pos,
                                                       rd.len, BytesRead(rd))]
                 /\ pwork' = WorkNext(pwork).w
                 /\ ticks' = Append(ticks, WorkNext(pwork).fn)
                 /\ UNCHANGED <<work, cbCalls>>
  /\ UNCHANGED <<rev, file, bufProps, prop, fd, header, FAT, dir, crashed, hung, streams,
                 calls, openReads>>

\* Work.prototype.next of the running phase's queue
PhaseNext(tk) ==
  /\ pwork' = WorkNext(pwork).w
  /\ ticks' = Append(tk, WorkNext(pwork).fn)

Event(ev, len, pos) == [ev |-> ev, len |-> len, pos |-> pos]

\* a property-set task that calls work.next() as soon as it has its stream
TickPropNoWait ==
  /\ TickIs("prop")
  /\ LET g == GetStreamCall(rev, header, FAT, miniFAT, dir, Len(streams),
                            Head(ticks).a, "prop")
     IN  /\ g.res \in {"err", "stream"}
         /\ streams' = IF g.res = "stream"
                          THEN Append(streams,
                                 [g.stream EXCEPT !.w = WorkGo(g.stream.w).w])
                          ELSE streams
         /\ PhaseNext(IF g.res = "stream" THEN AfterTick(WorkGo(g.stream.w).fn)
                      ELSE Tail(ticks))
  /\ UNCHANGED <<rev, file, bufProps, prop, fd, header, FAT, miniFAT, dir, work, reads, cbCalls,
                 crashed, hung, calls, openReads>>

\* a property-set task: getStream(ixEntry, ...); without a stream the task
\* gives up with work.next(), with one it listens and the stream's queue
\* starts
TickProp ==
  /\ TickIs("prop")
  /\ LET g == GetStreamCall(rev, header, FAT, miniFAT, dir, Len(streams),
                            Head(ticks).a, "prop")
     IN  CASE g.res = "throw" ->
                /\ crashed' = TRUE
                /\ ticks' = Tail(ticks)
                /\ UNCHANGED <<pwork, hung, streams>>
           [] g.res = "loop" ->
                /\ hung' = TRUE
                /\ ticks' = Tail(ticks)
                /\ UNCHANGED <<pwork, crashed, streams>>
           [] g.res = "err" ->
                /\ PhaseNext(Tail(ticks))
                /\ UNCHANGED <<crashed, hung, streams>>
           [] g.res = "stream" ->
                /\ streams' = Append(streams,
                                [g.stream EXCEPT !.w = WorkGo(g.stream.w).w])
                /\ ticks' = AfterTick(WorkGo(g.stream.w).fn)
                /\ UNCHANGED <<pwork, crashed, hung>>
  /\ UNCHANGED <<rev, file, bufProps, prop, fd, header, FAT, miniFAT, dir, work, reads, cbCalls,
                 calls, openReads>>

\* a read task that calls work.next() without waiting for its read
TickReadBlockEager ==
  /\ TickIs("readBlock")
  /\ LET sn == Head(ticks).a
     IN  /\ reads' = reads \cup
              {Read("block", sn, Head(ticks).b, streams[sn].bytes)}
         /\ openReads' = IF streams[sn].owner = "prop" THEN openReads + 1
                         ELSE openReads
         /\ streams' = [streams EXCEPT ![sn].w = WorkNext(@).w]
         /\ ticks' = AfterTick(WorkNext(streams[sn].w).fn)
  /\ UNCHANGED <<rev, file, bufProps, prop, fd, header, FAT, miniFAT, dir, work, pwork, cbCalls,
                 crashed, hung, calls>>

\* a read task of a stream's queue
TickReadBlock ==
  /\ TickIs("readBlock")
  /\ LET sn == Head(ticks).a
     IN  /\ reads' = reads \cup
              {Read("block", sn, Head(ticks).b, streams[sn].bytes)}
         /\ openReads' = IF streams[sn].owner = "prop" THEN openReads + 1
                         ELSE openReads
  /\ ticks' = Tail(ticks)
  /\ UNCHANGED <<rev, file, bufProps, prop, fd, header, FAT, miniFAT, dir, work, pwork, cbCalls,
                 crashed, hung, streams, calls>>

\* a read callback that emits the error and still calls work.next()
BlockReadGoesOn ==
  /\ Running
  /\ \E rd \in reads : \E ok \in Outcomes(rd) :
       LET sn == rd.a
           st == streams[sn]
           len == ChunkLen(st.curSize, st.streamSize, st.bytes)
       IN  /\ rd.kind = "block"
           /\ reads' = reads \ {rd}
           /\ streams' = [streams EXCEPT
                ![sn].events = Append(@, IF ok THEN Event("data", len, rd.pos)
                                         ELSE Event("error", 0, rd.pos)),
                ![sn].w = WorkNext(st.w).w]
           /\ ticks' = Append(ticks, WorkNext(st.w).fn)
  /\ UNCHANGED <<rev, file, bufProps, prop, fd, header, FAT, miniFAT, dir, work, pwork, cbCalls,
                 crashed, hung, calls, openReads>>

\* a read callback that emits end after every chunk
BlockReadEndsEachChunk ==
  /\ Running
  /\ \E rd \in reads : \E ok \in Outcomes(rd) :
       LET sn == rd.a
           st == streams[sn]
           len == ChunkLen(st.curSize, st.streamSize, st.bytes)
       IN  /\ rd.kind = "block"
           /\ reads' = reads \ {rd}
           /\ IF ok
                THEN /\ streams' = [streams EXCEPT
                          ![sn].events = @ \o <<Event("data", len, rd.pos),
                                                Event("end", 0, 0)>>,
                          ![sn].w = WorkNext(st.w).w]
                     /\ ticks' = Append(ticks, WorkNext(st.w).fn)
                ELSE /\ streams' = [streams EXCEPT ![sn].events =
                                      Append(@, Event("error", 0, rd.pos))]
                     /\ UNCHANGED ticks
  /\ UNCHANGED <<rev, file, bufProps, prop, fd, header, FAT, miniFAT, dir, work, pwork, cbCalls,
                 crashed, hung, calls, openReads>>

\* the completion of a block read of a stream.  An error is emitted and the
\* stream's queue stops; a property-set listener then calls work.next().
\* Otherwise a chunk is emitted (a property-set listener copies it into
\* bufProps) and the stream's queue goes on.  buf.slice past the end of buf
\* and copy at or past the end of bufProps throw in some versions of node
\* and are clamped in others.
BlockRead ==
  /\ Running
  /\ \E rd \in reads : \E ok \in Outcomes(rd) : \E lenient \in BOOLEAN :
       LET sn == rd.a
           st == streams[sn]
           len == ChunkLen(st.curSize, st.streamSize, st.bytes)
           edge == \/ st.curSize - st.streamSize > st.bytes
                   \/ (st.owner = "prop" /\ len > 0 /\ st.offset >= st.streamSize)
       IN  /\ rd.kind = "block"
           /\ reads' = reads \ {rd}
           /\ IF ~ok
                THEN /\ lenient
                     /\ streams' = [streams EXCEPT ![sn].events =
                                      Append(@, Event("error", 0, rd.pos))]
                     /\ IF st.owner = "prop"
                          THEN PhaseNext(ticks)
                          ELSE UNCHANGED <<pwork, ticks>>
                     /\ UNCHANGED crashed
              ELSE IF edge /\ ~lenient
                THEN /\ crashed' = TRUE
                     /\ UNCHANGED <<streams, pwork, ticks>>
              ELSE /\ (lenient \/ edge)
                   /\ streams' = [streams EXCEPT
                        ![sn].events = Append(@, Event("data", len, rd.pos)),
                        ![sn].offset = IF st.owner = "prop" THEN @ + len ELSE @,
                        ![sn].w = WorkNext(st.w).w]
                   /\ ticks' = Append(ticks, WorkNext(st.w).fn)
                   /\ UNCHANGED <<pwork, crashed>>
  /\ UNCHANGED <<rev, file, bufProps, prop, fd, header, FAT, miniFAT, dir, work, cbCalls, hung,
                 calls, openReads>>

\* an end callback that emits the end twice
TickEmitEndTwice ==
  /\ TickIs("emitEnd")
  /\ streams' = [streams EXCEPT ![Head(ticks).a].events =
                   @ \o <<Event("end", 0, 0), Event("end", 0, 0)>>]
  /\ ticks' = Tail(ticks)
  /\ UNCHANGED <<rev, file, bufProps, prop, fd, header, FAT, miniFAT, dir, work, pwork, reads,
                 cbCalls, crashed, hung, calls, openReads>>

\* the stream's queue ran dry: stream.emit('end').  A property-set listener
\* first assigns self.dir[ixEntry].properties = new Object() (a TypeError
\* when self.dir is no longer the array), then decodes into it and calls
\* work.next().  The decoder checks nothing: on bytes that are no property
\* set new Buffer(count) and bufProps.copy throw in some versions of node
\* and are clamped in others.
TickEmitEnd ==
  /\ TickIs("emitEnd")
  /\ LET sn == Head(ticks).a
         st == streams[sn]
     IN  /\ streams' = [streams EXCEPT ![sn].events = Append(@, Event("end", 0, 0))]
         /\ IF st.owner # "prop"
              THEN /\ ticks' = Tail(ticks)
                   /\ UNCHANGED <<dir, pwork, crashed>>
            ELSE IF dir.state # "array"
              THEN /\ crashed' = TRUE
                   /\ ticks' = Tail(ticks)
                   /\ UNCHANGED <<dir, pwork>>
            ELSE /\ dir' = [dir EXCEPT !.ents[st.id + 1].hasProps = TRUE]
                 /\ \E lenient \in BOOLEAN :
                      IF lenient \/ FilePropsWellFormed(file)
                        THEN /\ PhaseNext(Tail(ticks))
                             /\ UNCHANGED crashed
                        ELSE /\ ~lenient
                             /\ crashed' = TRUE
                             /\ ticks' = Tail(ticks)
                             /\ UNCHANGED pwork
  /\ UNCHANGED <<rev, file, bufProps, prop, fd, header, FAT, miniFAT, work, reads, cbCalls, hung,
                 calls, openReads>>

(***************************************************************************)
(* The caller, once open's callback has fired.                             *)
(***************************************************************************)
\* the call just made: res is "throw" (it threw), "err" (its callback got
\* an error), "loop" (it never returned), "stream" or "ok"; ret is what
\* findStream returned or the number of the stream getStream handed out
Call(op, id, name, res, ret) ==
  [n |-> [calls.n EXCEPT ![op] = @ + 1],
   last |-> [op |-> op, id |-> id, name |-> name, res |-> res, ret |-> ret]]
NCalls(op) == calls.n[op]

\* a getStream whose queue, when it has no task, calls its callback inside
\* go() instead of handing it to process.nextTick: the end of a stream with
\* an empty chain is emitted before getStream returns
GetStreamEndsAtOnce ==
  /\ Running /\ cbCalls # <<>> /\ NCalls("getStream") < MaxGetStream
  /\ \E id \in 0..MaxId :
       LET g == GetStreamCall(rev, header, FAT, miniFAT, dir, Len(streams), id,
                              "user")
           empty == g.stream.w.tasks = <<>>
       IN  /\ calls' = Call("getStream", id, <<>>, g.res,
                           IF g.res = "stream" THEN Len(streams) + 1 ELSE 0)
           /\ hung' = (g.res = "loop")
           /\ IF g.res = "stream"
                THEN /\ streams' = Append(streams,
                                     [g.stream EXCEPT !.w = WorkGo(g.stream.w).w,
                                                      !.fdAtCall = fd,
                                                      !.events =
                                                        IF empty
                                                          THEN <<Event("end", 0, 0)>>
                                                          ELSE <<>>])
                     /\ ticks' = IF empty THEN ticks
                                 ELSE Append(ticks, WorkGo(g.stream.w).fn)
                ELSE UNCHANGED <<streams, ticks>>
  /\ UNCHANGED <<rev, file, bufProps, prop, fd, header, FAT, miniFAT, dir, work, pwork, reads,
                 cbCalls, crashed, openReads>>

\* parser.getStream(id, cb): ret is the number of the stream handed to cb
GetStream ==
  /\ Running /\ cbCalls # <<>> /\ NCalls("getStream") < MaxGetStream
  /\ \E id \in 0..MaxId :
       LET g == GetStreamCall(rev, header, FAT, miniFAT, dir, Len(streams), id,
                              "user")
       IN  /\ calls' = Call("getStream", id, <<>>, g.res,
                           IF g.res = "stream" THEN Len(streams) + 1 ELSE 0)
           /\ hung' = (g.res = "loop")
           /\ IF g.res = "stream"
                THEN /\ streams' = Append(streams,
                                     [g.stream EXCEPT !.w = WorkGo(g.stream.w).w,
                                                      !.fdAtCall = fd])
                     /\ ticks' = Append(ticks, WorkGo(g.stream.w).fn)
                ELSE UNCHANGED <<streams, ticks>>
  /\ UNCHANGED <<rev, file, bufProps, prop, fd, header, FAT, miniFAT, dir, work, pwork, reads,
                 cbCalls, crashed, openReads>>

\* the streams the caller may hold at a time when calls overlap
MaxConcurrent == 2

\* a getStream whose byte count curSize is one variable of the parser, which
\* every call goes on adding to, instead of a variable of the call
GetStreamSharedCount ==
  /\ Running /\ cbCalls # <<>> /\ NCalls("getStream") < MaxConcurrent
  /\ \E id \in 0..MaxId :
       LET g == GetStreamCall(rev, header, FAT, miniFAT, dir, Len(streams), id,
                              "user")
           before == IF streams = <<>> THEN 0
                     ELSE streams[Len(streams)].curSize
       IN  /\ calls' = Call("getStream", id, <<>>, g.res,
                           IF g.res = "stream" THEN Len(streams) + 1 ELSE 0)
           /\ hung' = (g.res = "loop")
           /\ IF g.res = "stream"
                THEN /\ streams' = Append(streams,
                                     [g.stream EXCEPT !.w = WorkGo(g.stream.w).w,
                                                      !.fdAtCall = fd,
                                                      !.curSize = @ + before])
                     /\ ticks' = Append(ticks, WorkGo(g.stream.w).fn)
                ELSE UNCHANGED <<streams, ticks>>
  /\ UNCHANGED <<rev, file, bufProps, prop, fd, header, FAT, miniFAT, dir, work, pwork, reads,
                 cbCalls, crashed, openReads>>

\* parser.getStream(id, cb), called also while the streams of earlier calls
\* are still reading: every call has its own buf, curSize, stream and work
GetStreamConcurrent ==
  /\ Running /\ cbCalls # <<>> /\ NCalls("getStream") < MaxConcurrent
  /\ \E id \in 0..MaxId :
       LET g == GetStreamCall(rev, header, FAT, miniFAT, dir, Len(streams), id,
                              "user")
       IN  /\ calls' = Call("getStream", id, <<>>, g.res,
                           IF g.res = "stream" THEN Len(streams) + 1 ELSE 0)
           /\ hung' = (g.res = "loop")
           /\ IF g.res = "stream"
                THEN /\ streams' = Append(streams,
                                     [g.stream EXCEPT !.w = WorkGo(g.stream.w).w,
                                                      !.fdAtCall = fd])
                     /\ ticks' = Append(ticks, WorkGo(g.stream.w).fn)
                ELSE UNCHANGED <<streams, ticks>>
  /\ UNCHANGED <<rev, file, bufProps, prop, fd, header, FAT, miniFAT, dir, work, pwork, reads,
                 cbCalls, crashed, openReads>>

\* a findStream that upper-cases the stored names in place before comparing
FindStreamUpperInPlace ==
  /\ Running /\ cbCalls # <<>> /\ NCalls("findStream") < MaxFind
  /\ \E name \in Names :
       LET g == FindStreamCall(dir, name)
       IN  calls' = Call("findStream", 0, name, g.res, g.ret)
  /\ dir' = [dir EXCEPT !.ents =
                [i \in DOMAIN dir.ents |->
                   [dir.ents[i] EXCEPT !.name = ToUpperCase(dir.ents[i].name)]]]
  /\ UNCHANGED <<rev, file, bufProps, prop, fd, header, FAT, miniFAT, work, pwork, ticks,
                 reads, cbCalls, crashed, hung, streams, openReads>>

\* parser.findStream(name)
FindStream ==
  /\ Running /\ cbCalls # <<>> /\ NCalls("findStream") < MaxFind
  /\ \E name \in Names :
       LET g == FindStreamCall(dir, name)
       IN  calls' = Call("findStream", 0, name, g.res, g.ret)
  /\ UNCHANGED <<rev, file, bufProps, prop, fd, header, FAT, miniFAT, dir, work, pwork, ticks,
                 reads, cbCalls, crashed, hung, streams, openReads>>

\* parser.close(cb): fs.close(this.fd, cb); this.fd is undefined when
\* fs.open failed, and fs.close then throws
Close ==
  /\ Running /\ cbCalls # <<>> /\ NCalls("close") < 1
  /\ IF fd = "open"
       THEN /\ fd' = "closed"
            /\ calls' = Call("close", 0, <<>>, "ok", 0)
       ELSE /\ calls' = Call("close", 0, <<>>, "throw", 0)
            /\ UNCHANGED fd
  /\ UNCHANGED <<rev, file, bufProps, prop, header, FAT, miniFAT, dir, work, pwork, ticks,
                 reads, cbCalls, crashed, hung, streams, openReads>>

Next ==
  \/ FsOpen
  \/ TickParseHeader
  \/ HeaderRead
  \/ TickParseFAT
  \/ TickPhaseRead
  \/ FATRead
  \/ TickMaybeDIF
  \/ DIFRead
  \/ TickNotFn
  \/ TickMaybeDir
  \/ DirRead
  \/ TickLift
  \/ TickProp
  \/ TickMaybeMiniFAT
  \/ MiniFATRead
  \/ TickOuterNext
  \/ TickCallback
  \/ TickReadBlock
  \/ BlockRead
  \/ TickEmitEnd
  \/ GetStream
  \/ FindStream
  \/ Close

Spec == Init /\ [][Next]_vars

(***************************************************************************)
(* What the file holds, read off its bytes without the parser: the         *)
(* directory records in chain order up to the first INVALID one, and the   *)
(* allocation tables.                                                      *)
(***************************************************************************)
DiskDirSectors(f) ==
  IF ~f.dirOn THEN <<>> ELSE IF f.twoDir THEN <<1, 2>> ELSE <<1>>

RECURSIVE DiskRecords(_, _)
DiskRecords(f, k) ==
  IF k > Len(DiskDirSectors(f)) THEN <<>>
  ELSE FileEntries(f, DiskDirSectors(f)[k]) \o DiskRecords(f, k + 1)

RECURSIVE UpToInvalid(_)
UpToInvalid(q) ==
  IF q = <<>> \/ Head(q).type = STGTY_INVALID THEN <<>>
  ELSE <<Head(q)>> \o UpToInvalid(Tail(q))

DiskDir(f) == UpToInvalid(DiskRecords(f, 1))

\* the characters of an on-disk name: the UTF-16LE code units before the
\* terminator, control characters left out
DiskName(raw) ==
  LET units == [i \in 1..(Len(raw.name) \div 2) |->
                  raw.name[2 * i - 1] + 256 * raw.name[2 * i]]
  IN  SelectSeq(units, NotControl)

SameLetter(a, b) ==
  \/ a = b
  \/ (a \in 65..90 /\ b = a + 32)
  \/ (b \in 65..90 /\ a = b + 32)
SameIgnoringCase(n, m) ==
  /\ Len(n) = Len(m)
  /\ \A i \in 1..Len(n) : SameLetter(n[i], m[i])

RECURSIVE SumLens(_)
SumLens(evs) ==
  IF evs = <<>> THEN 0
  ELSE (IF Head(evs).ev = "data" THEN Head(evs).len ELSE 0) + SumLens(Tail(evs))

\* id is the index of a record of the directory on disk
EntryOnDisk(id) == id < Len(DiskDir(file))
HasEvent(st, ev) == \E i \in DOMAIN st.events : st.events[i].ev = ev
OpenSucceeded == cbCalls = <<NoErr>>
OpenFailed == cbCalls # <<>> /\ Head(cbCalls) # NoErr

(***************************************************************************)
(* The claims.                                                             *)
(***************************************************************************)

\* C1: after a successful open, a stream that getStream handed to the caller
\* and that has ended has emitted data chunks whose lengths sum to the
\* entry's size.
C1_StreamLengthIsSize ==
  OpenSucceeded =>
    \A i \in DOMAIN streams :
      (streams[i].owner = "user" /\ HasEvent(streams[i], "end"))
        => SumLens(streams[i].events) = DiskDir(file)[streams[i].id + 1].size

\* C2: after a successful open, getStream on an index whose on-disk entry
\* has type STREAM hands a stream to its callback.
C2_GetStreamGivesStream ==
  (/\ OpenSucceeded
   /\ calls.last.op = "getStream"
   /\ calls.last.id < Len(DiskDir(file))
   /\ DiskDir(file)[calls.last.id + 1].type = STGTY_STREAM)
    => calls.last.res = "stream"

\* C3: after a successful open of a file that has a directory, findStream(m)
\* returns the index of the first directory entry whose name is m ignoring
\* case, and -1 when there is none.
C3_FindStreamFindsFirst ==
  (OpenSucceeded /\ calls.last.op = "findStream" /\ DiskDir(file) # <<>>)
    => /\ calls.last.res = "ok"
       /\ LET hits == { i \in 0..(Len(DiskDir(file)) - 1) :
                         SameIgnoringCase(DiskName(DiskDir(file)[i + 1]),
                                          calls.last.name) }
          IN  IF hits = {} THEN calls.last.ret = -1
              ELSE /\ calls.last.ret \in hits
                   /\ \A j \in hits : calls.last.ret <= j

\* C4: for a file whose header lists its FAT sector, once the handle is open
\* and open has nothing left to run (no callback queued, no read
\* outstanding) or cannot run any more, its callback has been invoked
\* exactly once.
OpenQuiet ==
  /\ \A i \in DOMAIN ticks :
       /\ ticks[i].kind \in {"readBlock", "emitEnd"}
       /\ streams[ticks[i].a].owner = "user"
  /\ \A rd \in reads :
       /\ rd.kind = "block"
       /\ streams[rd.a].owner = "user"
OpenIdle == fd # "unopened" /\ (~Running \/ OpenQuiet)
C4_OpenCallsBackOnce == (OpenIdle /\ file.fatOn) => Len(cbCalls) = 1

\* C5: once a phase of open (or fs.open itself) has reported an error, the
\* callback has been invoked exactly once, nothing of open is queued or in
\* flight, and from then on open starts no phase, issues no read and does not
\* invoke the callback again.
C5_ErrorAbortsOpen ==
  [][ OpenFailed' =>
        /\ Len(cbCalls') = 1
        /\ OpenQuiet'
        /\ OpenFailed =>
             /\ cbCalls' = cbCalls
             /\ openReads' = openReads
             /\ work' = work
             /\ pwork' = pwork ]_vars

\* C5 witness: a read of the directory phase failed
C5_DirReadFailed ==
  cbCalls = <<"EIO">> /\ work.task = 4 /\ openReads = 3

\* C6: after an open that failed in one of its phases, and without the
\* caller closing the parser, the file handle is not open any more.
C6_FailedOpenReleasesHandle ==
  (OpenFailed /\ fd # "failed" /\ NCalls("close") = 0) => fd # "open"

\* C7: when the read at offset 0 delivers fewer than 512 bytes or a wrong
\* magic, the callback gets the invalid-format error, the header (and every
\* table) stays unset and the header read is the only read open issues.
HeaderReadDone ==
  openReads >= 1 /\ ~\E rd \in reads : rd.kind = "header"
C7_BadHeaderIsInvalidFormat ==
  file.hdr # "ok" =>
    /\ ~header.def /\ ~FAT.def /\ ~miniFAT.def /\ dir.state = "undefined"
    /\ openReads <= 1
    /\ (HeaderReadDone /\ cbCalls # <<"EIO">>) =>
         (cbCalls = <<"InvalidFormat">> /\ OpenQuiet)

\* C7 witness: the eighth magic byte is wrong and open has failed
C7_BadMagicReported ==
  file.hdr = "magic8" /\ cbCalls = <<"InvalidFormat">> /\ openReads = 1

\* the chain of sectors that starts at sect in an on-disk table
RECURSIVE DiskChain(_, _, _)
DiskChain(words, sect, fuel) ==
  IF fuel = 0 \/ sect \notin 0..(Len(words) - 1) THEN <<>>
  ELSE <<sect>> \o DiskChain(words, words[sect + 1], fuel - 1)

\* C8: every stream getStream has produced for an entry of the directory on
\* disk reads blocks of sectorSize bytes
\* along the FAT chain of its entry when the entry's size is at least
\* maxMiniStreamSize, and otherwise blocks of miniSectorSize bytes along the
\* mini-FAT chain, placed from the start of the root entry's mini-stream.
C8_RoutesByThreshold ==
  \A i \in { j \in DOMAIN streams : EntryOnDisk(streams[j].id) } :
    LET st == streams[i]
        e == DiskDir(file)[st.id + 1]
        large == e.size >= file.maxMini
        bytes == IF large THEN FileSectorSize(file) ELSE FileMiniSectorSize(file)
        chain == DiskChain(FileWords(file, IF large THEN 0 ELSE 3), e.sect, 8)
        base == IF large THEN 0
                ELSE DiskDir(file)[1].sect * FileSectorSize(file)
    IN  /\ st.isFAT = large
        /\ st.bytes = bytes
        /\ Len(st.w.tasks) = Len(chain)
        /\ \A k \in DOMAIN chain :
             st.w.tasks[k].b = HeaderSize + base + chain[k] * bytes

\* C8 witness: a stream of each regime with a chain of two blocks, one of
\* them with a size equal to the cutoff or not
C8_BothRegimes ==
  \E i, j \in DOMAIN streams :
    /\ streams[i].isFAT /\ Len(streams[i].w.tasks) = 2
    /\ ~streams[j].isFAT /\ Len(streams[j].w.tasks) = 2

\* C9: after a successful open, getStream on an index that names no entry
\* of the file, or an entry that is not of type STREAM, hands the
\* no-such-stream error to its callback.
C9_NoSuchStreamError ==
  (/\ OpenSucceeded
   /\ calls.last.op = "getStream"
   /\ \/ calls.last.id >= Len(DiskDir(file))
      \/ DiskDir(file)[calls.last.id + 1].type # STGTY_STREAM)
    => calls.last.res = "err"

\* the directory phase has reported completion: its callback is queued or
\* has run
DirPhaseReported ==
  \/ work.task >= 5
  \/ (work.task = 4 /\ \E i \in DOMAIN ticks : ticks[i].kind = "outerNext")

\* no property-set decode is queued or under way
DecodesFinished ==
  /\ \A i \in DOMAIN ticks :
       /\ ticks[i].kind # "prop"
       /\ ticks[i].kind \in {"readBlock", "emitEnd"}
            => streams[ticks[i].a].owner # "prop"
  /\ \A rd \in reads : rd.kind = "block" => streams[rd.a].owner # "prop"
  /\ \A i \in DOMAIN streams :
       streams[i].owner = "prop" =>
         \/ HasEvent(streams[i], "error")
         \/ /\ HasEvent(streams[i], "end")
            /\ dir.state = "array" => dir.ents[streams[i].id + 1].hasProps
  /\ work.task = 4 => pwork.task = Len(pwork.tasks)

\* C10: when the directory phase reports completion, and so when open's
\* callback runs, every property-set decode it queued has finished: its
\* stream ended (the properties are attached) or failed, or the decode got
\* no stream.
C10_DecodesBeforeCompletion ==
  (DirPhaseReported \/ OpenSucceeded) => DecodesFinished

\* C10 witness: open succeeded after a property-set stream ended and its
\* entry got its properties
C10_DecodedThenOpened ==
  /\ OpenSucceeded
  /\ \E i \in DOMAIN streams :
       /\ streams[i].owner = "prop"
       /\ HasEvent(streams[i], "end")
       /\ dir.state = "array"
       /\ dir.ents[streams[i].id + 1].hasProps

\* the directory indices of the on-disk STREAM records that start with byte 5
DiskPropStreams(f) ==
  { i \in 0..(Len(DiskDir(f)) - 1) :
      /\ DiskDir(f)[i + 1].type = STGTY_STREAM
      /\ MarkerByte(DiskDir(f)[i + 1]) = 5 }

\* C11: after a successful open of a file whose property-set streams are
\* well-formed, every STREAM entry whose on-disk record starts with byte 5
\* carries a properties record (the streams of the files considered are
\* readable: they lie in FAT sectors of the file).
C11_PropertyStreamsDecoded ==
  (OpenSucceeded /\ FilePropsWellFormed(file)) =>
    \A i \in DiskPropStreams(file) :
      /\ dir.state # "undefined"
      /\ i < Len(dir.ents)
      /\ dir.ents[i + 1].hasProps

\* the property-set decode of a stream failed: a block read failed, or the
\* stream ended and its bytes are no property set
DecodeFailed(st) ==
  /\ st.owner = "prop"
  /\ \/ HasEvent(st, "error")
     \/ (HasEvent(st, "end") /\ ~FilePropsWellFormed(file))

\* C12: when the property-set decode of an entry failed, the parser is still
\* running and the entry has no properties record.
C12_FailedDecodeLeavesNoProperties ==
  \A i \in DOMAIN streams :
    DecodeFailed(streams[i]) =>
      /\ ~crashed
      /\ dir.state = "array" => ~dir.ents[streams[i].id + 1].hasProps

\* the number of events of kind ev a stream has emitted
RECURSIVE CountEvents(_, _)
CountEvents(evs, ev) ==
  IF evs = <<>> THEN 0
  ELSE (IF Head(evs).ev = ev THEN 1 ELSE 0) + CountEvents(Tail(evs), ev)

\* nothing of stream number sn is queued or in flight
StreamQuiet(sn) ==
  /\ \A i \in DOMAIN ticks :
       ticks[i].kind \in {"readBlock", "emitEnd"} => ticks[i].a # sn
  /\ \A rd \in reads : rd.kind = "block" => rd.a # sn

\* C13: a stream that has emitted an error has emitted exactly one, the
\* error is its last event (no data and no end after it), and no read of
\* that stream is queued or outstanding.
C13_ErrorEndsStream ==
  \A sn \in DOMAIN streams :
    HasEvent(streams[sn], "error") =>
      /\ CountEvents(streams[sn].events, "error") = 1
      /\ streams[sn].events[Len(streams[sn].events)].ev = "error"
      /\ StreamQuiet(sn)

\* C13 witness: the second block read of a caller's stream failed after the
\* first chunk was delivered, and a block of the chain was never read
C13_SecondReadFailed ==
  \E sn \in DOMAIN streams :
    /\ streams[sn].owner = "user"
    /\ Len(streams[sn].w.tasks) = 2
    /\ Len(streams[sn].events) = 2
    /\ streams[sn].events[1].ev = "data"
    /\ streams[sn].events[2].ev = "error"

\* the file offsets of the blocks of the on-disk entry id, in chain order
DiskBlockPositions(f, id) ==
  LET e == DiskDir(f)[id + 1]
      large == e.size >= f.maxMini
      bytes == IF large THEN FileSectorSize(f) ELSE FileMiniSectorSize(f)
      chain == DiskChain(FileWords(f, IF large THEN 0 ELSE 3), e.sect, 8)
      base == IF large THEN 0 ELSE DiskDir(f)[1].sect * FileSectorSize(f)
  IN  [k \in DOMAIN chain |-> HeaderSize + base + chain[k] * bytes]

\* C14: the k-th event of a stream of an entry of the directory on disk,
\* when it is a data event, carries the
\* block read at the file offset of the k-th block of the entry's chain,
\* and data events come before any other event.
C14_ChunksInChainOrder ==
  \A sn \in { j \in DOMAIN streams : EntryOnDisk(streams[j].id) } :
    \A k \in DOMAIN streams[sn].events :
      streams[sn].events[k].ev = "data" =>
        /\ k <= Len(DiskBlockPositions(file, streams[sn].id))
        /\ streams[sn].events[k].pos = DiskBlockPositions(file, streams[sn].id)[k]

\* C14 witness: a caller's stream delivered two chunks from two different
\* blocks and ended
C14_TwoChunksDelivered ==
  \E sn \in DOMAIN streams :
    /\ streams[sn].owner = "user"
    /\ Len(streams[sn].events) = 3
    /\ streams[sn].events[1].ev = "data"
    /\ streams[sn].events[2].ev = "data"
    /\ streams[sn].events[1].pos < streams[sn].events[2].pos
    /\ streams[sn].events[3].ev = "end"

\* the stream was handed out by a getStream call made after close
AfterClose(st) == st.owner = "user" /\ st.fdAtCall = "closed"

\* C15 as stated: a stream obtained after close delivers no data chunk and
\* no end.
C15_NoEndAfterClose ==
  \A sn \in DOMAIN streams :
    AfterClose(streams[sn]) =>
      /\ ~HasEvent(streams[sn], "data")
      /\ ~HasEvent(streams[sn], "end")

\* C15 amended: a stream obtained after close delivers no data chunk; when
\* its chain has a block, its first read fails, it emits the error and never
\* ends; it ends only when its chain is empty, and then without any read.
C15_ReadsFailAfterClose ==
  \A sn \in DOMAIN streams :
    AfterClose(streams[sn]) =>
      /\ ~HasEvent(streams[sn], "data")
      /\ HasEvent(streams[sn], "end") => Len(streams[sn].w.tasks) = 0
      /\ (Len(streams[sn].w.tasks) > 0 /\ StreamQuiet(sn))
           => /\ streams[sn].events = <<Event("error", 0, streams[sn].w.tasks[1].b)>>
              /\ streams[sn].w.task = 1

\* C15 witness: a stream with two blocks obtained after close has failed on
\* its first read
C15_FailedAfterClose ==
  \E sn \in DOMAIN streams :
    /\ AfterClose(streams[sn])
    /\ Len(streams[sn].w.tasks) = 2
    /\ HasEvent(streams[sn], "error")

\* C16: on a file one of whose chains (directory, mini-FAT, stream) reaches
\* a sector number with no entry in the allocation table, the walk ends (and
\* so can report a truncated chain) instead of running on for ever.
C16_TruncatedChainReported == file.cut # "none" => ~hung

\* the (major version, sector size) pair on disk is neither (3, 512) nor
\* (4, 4096)
UnsupportedVersion(f) ==
  /\ f.hdr = "ok"
  /\ ~(f.major = 3 /\ FileSectorSize(f) = 512)
  /\ ~(f.major = 4 /\ FileSectorSize(f) = 4096)

\* C17: on a file whose (major version, sector size) pair is unsupported,
\* open never completes without error and nothing is thrown: the failure
\* reaches open's callback.
C17_UnsupportedVersionReported ==
  UnsupportedVersion(file) => ~crashed /\ ~OpenSucceeded

\* C18: no call of findStream, getStream or close made after open's callback
\* has fired throws synchronously.
C18_CallsNeverThrow == calls.last.res # "throw"

\* the directory indices reachable on disk from index start by following
\* left and right links (FREESECT is no link)
RECURSIVE DiskReach(_, _, _)
DiskReach(q, todo, seen) ==
  IF todo = {} THEN seen
  ELSE LET cur == CHOOSE v \in todo : TRUE
           next == { v \in {q[cur + 1].left, q[cur + 1].right} :
                       v \in 0..(Len(q) - 1) } \ (seen \cup {cur})
       IN  DiskReach(q, (todo \ {cur}) \cup next, seen \cup {cur})

DiskSubtree(q, child) ==
  IF child \in 0..(Len(q) - 1) THEN DiskReach(q, {child}, {}) ELSE {}

\* every storage or root record with a child carries, in the lifted
\* directory, exactly the entries of its subtree, each once
ChildrenAreSubtrees ==
  \A i \in 0..(Len(DiskDir(file)) - 1) :
    LET raw == DiskDir(file)[i + 1]
    IN  (IsStorageLike(raw.type) /\ raw.child # FREESECT) =>
          /\ dir.state = "root"
          /\ i < Len(dir.ents)
          /\ dir.ents[i + 1].hasChildren
          /\ Range(dir.ents[i + 1].children) = DiskSubtree(DiskDir(file), raw.child)
          /\ Len(dir.ents[i + 1].children)
               = Cardinality(DiskSubtree(DiskDir(file), raw.child))

\* C19: the tree-lift task leaves every STORAGE or ROOT entry whose child is
\* not FREESECT with a children collection holding exactly the entries
\* reachable from its child by left and right links, each exactly once.
C19_LiftCollectsSubtrees == [][TickLift => ChildrenAreSubtrees']_vars

\* C20: once open's completion callback has fired, no step (a findStream or
\* getStream call, or a read or event of a stream such a call started)
\* changes the header, the FAT, the mini-FAT, the directory entries or a
\* properties record.
C20_ParsedStateIsFrozen ==
  [][cbCalls # <<>> => UNCHANGED <<header, FAT, miniFAT, dir>>]_vars

\* C20 witness: after a successful open, findStream and getStream were both
\* called and the stream delivered data and its end
C20_CalledAndStreamed ==
  /\ OpenSucceeded
  /\ NCalls("findStream") = 1 /\ NCalls("getStream") = 1
  /\ \E sn \in DOMAIN streams :
       /\ streams[sn].owner = "user"
       /\ HasEvent(streams[sn], "data")
       /\ HasEvent(streams[sn], "end")

\* C21 as stated: after a successful open, findStream(n) returns what
\* findStream(n.toLowerCase()) and findStream(n.toUpperCase()) return in the
\* same parser state.
C21_CaseVariantsAgree ==
  (OpenSucceeded /\ calls.last.op = "findStream" /\ calls.last.res = "ok") =>
    /\ calls.last.ret = FindStreamCall(dir, ToLowerCase(calls.last.name)).ret
    /\ calls.last.ret = FindStreamCall(dir, ToUpperCase(calls.last.name)).ret

\* C21 amended: findStream(n) returns what findStream(n.toUpperCase())
\* returns, and what findStream(n.toLowerCase()) returns whenever
\* n.toLowerCase().toUpperCase() is n.toUpperCase().
C21_UpperCaseDecides ==
  (OpenSucceeded /\ calls.last.op = "findStream" /\ calls.last.res = "ok") =>
    /\ calls.last.ret = FindStreamCall(dir, ToUpperCase(calls.last.name)).ret
    /\ ToUpperCase(ToLowerCase(calls.last.name)) = ToUpperCase(calls.last.name)
         => calls.last.ret
              = FindStreamCall(dir, ToLowerCase(calls.last.name)).ret

\* C21 witness: findStream found an entry under a name that is not its own
\* upper case
C21_FoundLowerCaseName ==
  /\ OpenSucceeded /\ calls.last.op = "findStream"
  /\ calls.last.name # ToUpperCase(calls.last.name)
  /\ calls.last.ret >= 0

\* the position in the constructor's queue of the phase a read of open
\* belongs to (0 for a read of a stream the caller asked for)
PhaseOf(rd) ==
  CASE rd.kind = "header" -> 1
    [] rd.kind = "readFAT" -> 2
    [] rd.kind = "readDIF" -> 3
    [] rd.kind = "readDir" -> 4
    [] rd.kind = "block" -> IF streams[rd.a].owner = "prop" THEN 4 ELSE 0
    [] rd.kind = "readMini" -> 5
    [] OTHER -> 0

\* C22: a read of a phase is outstanding only while that phase is the
\* current task of the constructor's queue (a task becomes current when the
\* one before it reports completion); the DIFAT and mini-FAT phases read
\* only when their start sector is not ENDOFCHAIN; and the callback reports
\* success only after the last task, with no read of open outstanding.
C22_PhasesInOrder ==
  /\ \A rd \in reads :
       /\ PhaseOf(rd) # 0 => work.task = PhaseOf(rd)
       /\ rd.kind = "readDIF" => header.sectDIF # ENDOFCHAIN
       /\ rd.kind = "readMini" => header.sectMiniFAT # ENDOFCHAIN
  /\ OpenSucceeded =>
       /\ work.task = Len(work.tasks)
       /\ \A rd \in reads : PhaseOf(rd) = 0

\* C22 witness: open succeeded on a file with a DIFAT sector and a mini-FAT
\* after reading in all five phases
C22_AllPhasesRan ==
  /\ OpenSucceeded
  /\ header.sectDIF # ENDOFCHAIN /\ header.sectMiniFAT # ENDOFCHAIN
  /\ openReads >= 5

\* the DIFAT chain on disk: from sectDIF, each sector's last word names the
\* next one
RECURSIVE DiskDIFChain(_, _, _)
DiskDIFChain(f, sect, fuel) ==
  IF sect = ENDOFCHAIN \/ fuel = 0 THEN <<>>
  ELSE <<sect>> \o DiskDIFChain(f, FileWords(f, sect)[WordsPerSector(f)], fuel - 1)

\* the FAT sectors a sequence of slots names (a sentinel names none)
IsSector(v) == v >= 0
ListedIn(slots) == SelectSeq(slots, IsSector)

\* the FAT sectors the DIFAT sectors list: every word but the last
RECURSIVE DiskDIFListed(_, _)
DiskDIFListed(f, chain) ==
  IF chain = <<>> THEN <<>>
  ELSE ListedIn(SubSeq(FileWords(f, Head(chain)), 1, WordsPerSector(f) - 1))
         \o DiskDIFListed(f, Tail(chain))

\* the words of a list of sectors, one sector after the other: word j of
\* the k-th sector (both from 0) is at index k * (sectorSize / 4) + j
DiskWordsOf(f, sects) ==
  [i \in 1..(Len(sects) * WordsPerSector(f)) |->
     FileWords(f, sects[(i - 1) \div WordsPerSector(f) + 1])
       [((i - 1) % WordsPerSector(f)) + 1]]

DiskHeaderFATSectors(f) == ListedIn(FileFATSlots(f))

\* C23: once the DIFAT phase has reported completion, the FAT array is the
\* words of the header-listed FAT sectors followed by the words of the FAT
\* sectors the DIFAT sectors list.
C23_DIFATExtendsFAT ==
  (header.def /\ header.sectDIF # ENDOFCHAIN /\ work.task >= 4) =>
    /\ FAT.def
    /\ FAT.a = DiskWordsOf(file,
                 DiskHeaderFATSectors(file)
                   \o DiskDIFListed(file, DiskDIFChain(file, FileSectDIF(file), 4)))

\* C24: on a file with a DIFAT chain, the DIFAT phase does not fail with an
\* exception, and when it has reported completion (the directory task is next
\* to run) open has read the header, the header-listed FAT sectors and each
\* sector of the DIFAT chain once.
C24_DIFATChainReadToItsEnd ==
  (header.def /\ header.sectDIF # ENDOFCHAIN) =>
    /\ ~(crashed /\ work.task = 3)
    /\ TickIs("maybeDir") =>
         openReads = 1 + Len(header.FATsects)
                       + Len(DiskDIFChain(file, FileSectDIF(file), 4))

(***************************************************************************)
(* The header reader alone, on headers that list 0..HeaderSlots FAT        *)
(* sectors: open up to the completion of the header read.                  *)
(***************************************************************************)
HeaderFiles == { [Base EXCEPT !.slots = n] : n \in 0..HeaderSlots }

InitHeader ==
  /\ rev \in Revs
  /\ file \in HeaderFiles
  /\ fd = "unopened"
  /\ header = NoHeader
  /\ FAT = NoTable
  /\ miniFAT = NoTable
  /\ dir = NoDir
  /\ work = NewWork(OpenTasks, Fn("callback", 0, 0))
  /\ pwork = NoWork
  /\ ticks = <<>>
  /\ reads = {}
  /\ cbCalls = <<>>
  /\ crashed = FALSE
  /\ hung = FALSE
  /\ streams = <<>>
  /\ calls = NoCalls
  /\ openReads = 0
  /\ bufProps = <<>>
  /\ prop = NoProp

NextHeader ==
  \/ FsOpen
  \/ TickParseHeader
  \/ HeaderRead

SpecHeader == InitHeader /\ [][NextHeader]_vars

\* the number of slots before the first sentinel slot
LeadingSectors(slots) ==
  Cardinality({ k \in 1..Len(slots) : \A j \in 1..k : IsSector(slots[j]) })

\* C25: the FAT-sector list of the parsed header has one element per header
\* slot before the first sentinel slot: as many as there are slots (109) when
\* no slot holds a sentinel.
C25_AllSlotsCollected ==
  header.def => Len(header.FATsects) = LeadingSectors(FileFATSlots(file))

(***************************************************************************)
(* The header and FAT phases alone, on headers that list no, one, two,     *)
(* three FAT sectors, or one in every slot.                                *)
(***************************************************************************)
FATFiles == { [Base EXCEPT !.slots = n] : n \in {0, 1, 2, 3, HeaderSlots} }

InitFAT ==
  /\ rev \in Revs
  /\ file \in FATFiles
  /\ fd = "unopened"
  /\ header = NoHeader
  /\ FAT = NoTable
  /\ miniFAT = NoTable
  /\ dir = NoDir
  /\ work = NewWork(OpenTasks, Fn("callback", 0, 0))
  /\ pwork = NoWork
  /\ ticks = <<>>
  /\ reads = {}
  /\ cbCalls = <<>>
  /\ crashed = FALSE
  /\ hung = FALSE
  /\ streams = <<>>
  /\ calls = NoCalls
  /\ openReads = 0
  /\ bufProps = <<>>
  /\ prop = NoProp

NextFAT ==
  \/ FsOpen
  \/ TickParseHeader
  \/ HeaderRead
  \/ TickParseFAT
  \/ TickPhaseRead
  \/ FATRead
  \/ TickOuterNext

SpecFAT == InitFAT /\ [][NextFAT]_vars

\* the FAT phase has reported completion: the third task of the
\* constructor's queue was taken
FATPhaseReported == header.def /\ work.task >= 3

\* C26: after the FAT phase, the FAT array is the words of every
\* header-listed FAT sector, one sector after the other in the order of the
\* header slots.
C26_FATIsListedSectors ==
  (FATPhaseReported /\ DiskHeaderFATSectors(file) # <<>>) =>
    /\ FAT.def
    /\ Len(FAT.a) = Len(DiskHeaderFATSectors(file)) * WordsPerSector(file)
    /\ FAT.a = DiskWordsOf(file, DiskHeaderFATSectors(file))

\* C27: the directory array never holds more entries than the directory
\* chain has records before its first record of type 0 (INVALID): nothing
\* located after that record is appended.
C27_NothingAfterInvalid == Len(dir.ents) <= Len(DiskDir(file))

IsData(e) == e.ev = "data"
DataEvents(st) == SelectSeq(st.events, IsData)

\* C28: after a successful open, when a stream's chain has n blocks and its size is not a multiple of
\* the block size, each of its first n-1 data chunks has the block length and
\* the n-th has the length size - (n-1) * block size.
C28_OnlyLastChunkShortened ==
  \A i \in DOMAIN streams :
    LET st == streams[i]
        n == Len(st.w.tasks)
    IN  (OpenSucceeded /\ st.owner = "user" /\ n >= 1
           /\ st.streamSize % st.bytes # 0
           /\ CeilDiv(st.streamSize, st.bytes) = n) =>
          \A k \in 1..Len(DataEvents(st)) :
            DataEvents(st)[k].len =
              IF k < n THEN st.bytes ELSE st.streamSize - (n - 1) * st.bytes

\* C29: a stream emits end at most once; when it has, end is its last event,
\* it comes after one data event per block of the chain, and the stream has
\* emitted no error; and a stream all of whose block reads succeeded and
\* that has nothing left to run has emitted end.
C29_EndOnceAfterData ==
  \A sn \in DOMAIN streams :
    LET st == streams[sn]
    IN  /\ CountEvents(st.events, "end") <= 1
        /\ HasEvent(st, "end") =>
             /\ st.events[Len(st.events)].ev = "end"
             /\ Len(DataEvents(st)) = Len(st.w.tasks)
             /\ ~HasEvent(st, "error")
        /\ (StreamQuiet(sn) /\ Len(DataEvents(st)) = Len(st.w.tasks))
             => HasEvent(st, "end")

\* C29 witness: a caller's stream of two blocks emitted data, data, end
C29_TwoChunksThenEnd ==
  \E sn \in DOMAIN streams :
    /\ streams[sn].owner = "user"
    /\ Len(streams[sn].w.tasks) = 2
    /\ Len(DataEvents(streams[sn])) = 2
    /\ Len(streams[sn].events) = 3
    /\ streams[sn].events[3].ev = "end"

(***************************************************************************)
(* open up to the tree lift, on directories whose links are sound, form a  *)
(* cycle, or name an index past the last record.                           *)
(***************************************************************************)
LiftFiles ==
  { Base,
    [Base EXCEPT !.twoDir = TRUE],
    [Base EXCEPT !.link = "cycle"],
    [Base EXCEPT !.link = "outside"] }

InitLift ==
  /\ rev \in Revs
  /\ file \in LiftFiles
  /\ fd = "unopened"
  /\ header = NoHeader
  /\ FAT = NoTable
  /\ miniFAT = NoTable
  /\ dir = NoDir
  /\ work = NewWork(OpenTasks, Fn("callback", 0, 0))
  /\ pwork = NoWork
  /\ ticks = <<>>
  /\ reads = {}
  /\ cbCalls = <<>>
  /\ crashed = FALSE
  /\ hung = FALSE
  /\ streams = <<>>
  /\ calls = NoCalls
  /\ openReads = 0
  /\ bufProps = <<>>
  /\ prop = NoProp

NextLift ==
  \/ FsOpen
  \/ TickParseHeader
  \/ HeaderRead
  \/ TickParseFAT
  \/ TickPhaseRead
  \/ FATRead
  \/ TickOuterNext
  \/ TickMaybeDIF
  \/ TickMaybeDir
  \/ DirRead
  \/ TickLift

SpecLift == InitLift /\ [][NextLift]_vars

\* C30: whatever the child, left and right indices of the directory records,
\* the tree-lift walk of every storage ends (it neither runs on for ever nor
\* stops open with an exception).
C30_LiftWalkTerminates == ~hung /\ ~crashed

\* the started and unfinished tasks of the queue of stream sn: a read task
\* waiting in process.nextTick, or its read in flight
QueuedBlockTicks(sn) ==
  { i \in DOMAIN ticks : ticks[i].kind = "readBlock" /\ ticks[i].a = sn }
BlockReadsInFlight(sn) == { rd \in reads : rd.kind = "block" /\ rd.a = sn }

\* the tasks of the constructor's queue waiting in process.nextTick
QueuedOpenTicks ==
  { i \in DOMAIN ticks : ticks[i] \in Range(OpenTasks) }

VT_BSTR == 8
VT_LPSTR == 30
VT_BLOB == 65

MaxCount == 3        \* the count field of an item is 0..MaxCount
MaxStored == 3       \* an item has at most this many stored bytes
StoredBytes == {0, 97}
\* what the bytes of a Buffer hold before anything is written to them
Uninitialized == {0, 222}

\* bufProps.readUInt32(off, 'little'), bufProps.getIntLE(off, 4)
ReadUInt32(b, off) ==
  b[off + 1] + 256 * b[off + 2] + 65536 * b[off + 3] + 16777216 * b[off + 4]

UInt32Bytes(n) ==
  <<n % 256, (n \div 256) % 256, (n \div 65536) % 256, n \div 16777216>>

ItemBytes(type, count, stored) ==
  UInt32Bytes(type) \o UInt32Bytes(count) \o stored

Value(bytes) == [thrown |-> FALSE, bytes |-> bytes]
Thrown == [thrown |-> TRUE, bytes |-> <<>>]

\* source.copy(target, 0, sourceStart, sourceEnd): the bytes of the target
\* afterwards, or an exception.  A range that ends before it starts or runs past
\* the end of the source is refused with an exception by the Buffer of the
\* Node versions the code was written for and is clamped by later ones; both
\* outcomes are kept.
BufferCopy(source, target, sourceStart, sourceEnd) ==
  LET end == IF sourceEnd > Len(source) THEN Len(source) ELSE sourceEnd
      n == IF end - sourceStart > Len(target) THEN Len(target)
           ELSE IF end > sourceStart THEN end - sourceStart ELSE 0
      copied == [i \in 1..Len(target) |->
                   IF i <= n THEN source[sourceStart + i] ELSE target[i]]
  IN  IF sourceEnd = sourceStart \/ Len(target) = 0 THEN { Value(target) }
      ELSE IF sourceEnd < sourceStart \/ sourceEnd > Len(source)
                \/ sourceStart >= Len(source)
        THEN { Thrown, Value(copied) }
        ELSE { Value(copied) }

\* bufProps.toString('utf8', start, end) on bytes below 128
BufferToString(source, start, end) ==
  LET e == IF end > Len(source) THEN Len(source) ELSE end
  IN  IF e <= start THEN <<>> ELSE SubSeq(source, start + 1, e)

\* the values prop.value can take for the item at offset loc of b
DecodeValue(b, loc) ==
  LET type == ReadUInt32(b, loc)
      c == ReadUInt32(b, loc + 4)
  IN  IF type = VT_BSTR
        THEN UNION { BufferCopy(b, fresh, loc + 8, loc + 8 + c - 1) :
                       fresh \in [1..c -> Uninitialized] }
      ELSE IF type = VT_LPSTR
        THEN { Value(BufferToString(b, loc + 8, loc + 8 + c - 1)) }
      ELSE IF type = VT_BLOB
        THEN UNION { BufferCopy(b, fresh, loc + 8, loc + 8 + c) :
                       fresh \in [1..c -> Uninitialized] }
      ELSE { Value(<<>>) }

\* the for loop's body for one item: props.items.push(prop = {...}) and the
\* branch of its type
DecodeItem ==
  /\ ~prop.def
  /\ bufProps # <<>>
  /\ \E v \in DecodeValue(bufProps, 0) :
       prop' = [def |-> TRUE, type |-> ReadUInt32(bufProps, 0),
                thrown |-> v.thrown, value |-> v.bytes]
  /\ UNCHANGED <<rev, file, bufProps, fd, header, FAT, miniFAT, dir, work,
                 pwork, ticks, reads, cbCalls, crashed, hung, streams, calls,
                 openReads>>

InitProps ==
  /\ rev \in Revs
  /\ file = Base
  /\ fd = "unopened"
  /\ header = NoHeader
  /\ FAT = NoTable
  /\ miniFAT = NoTable
  /\ dir = NoDir
  /\ work = NewWork(OpenTasks, Fn("callback", 0, 0))
  /\ pwork = NoWork
  /\ ticks = <<>>
  /\ reads = {}
  /\ cbCalls = <<>>
  /\ crashed = FALSE
  /\ hung = FALSE
  /\ streams = <<>>
  /\ calls = NoCalls
  /\ openReads = 0
  /\ \E type \in {VT_BSTR, VT_LPSTR, VT_BLOB}, count \in 0..MaxCount,
        n \in 0..MaxStored :
       \E stored \in [1..n -> StoredBytes] :
         bufProps = ItemBytes(type, count, stored)
  /\ prop = NoProp

NextProps == DecodeItem

SpecProps == InitProps /\ [][NextProps]_vars

\* the count field and the stored bytes of the item in bufProps
ItemCount == ReadUInt32(bufProps, 4)
ItemStored == SubSeq(bufProps, 9, Len(bufProps))

\* the item is as a writer of property sets leaves it: at least one byte is
\* counted and every counted byte is stored
ItemWhole == bufProps # <<>> /\ ItemCount >= 1 /\ Len(ItemStored) >= ItemCount

\* C32: the value decoded from a whole VT_BSTR item is the first count-1
\* stored bytes and nothing more, and the value decoded from a whole VT_BLOB
\* item is the first count stored bytes.
C32_StringAndBlobLengths ==
  (prop.def /\ ItemWhole /\ ~prop.thrown) =>
    /\ prop.type = VT_BSTR =>
         prop.value = SubSeq(ItemStored, 1, ItemCount - 1)
    /\ prop.type = VT_BLOB =>
         prop.value = SubSeq(ItemStored, 1, ItemCount)

\* getStream(id) passes its first test and reads a stream in mini-sector
\* mode whose chain has at least one sector, so that it evaluates
\* this.miniFAT[sect]
MiniChainCall(id) ==
  /\ dir.state = "array"
  /\ id \in 0..(Len(dir.ents) - 1)
  /\ dir.ents[id + 1].hasType
  /\ dir.ents[id + 1].type = STGTY_STREAM
  /\ ~IsFAT(dir.ents[id + 1].size, header.maxMiniStreamSize)
  /\ dir.ents[id + 1].sect # ENDOFCHAIN

\* C33: whenever getStream, called by the user or by a queued property-set
\* decode, follows a chain of mini sectors, the mini-FAT array exists.
C33_MiniFATReadyForMiniStreams ==
  [][((TickProp /\ MiniChainCall(Head(ticks).a))
        \/ (GetStream /\ MiniChainCall(calls'.last.id)))
       => miniFAT.def]_vars

\* C34: when a queued property-set decode task runs, the directory is still
\* the flat array and the entry the task was queued for still has its type:
\* the tree lift has not run yet.
C34_DecodesBeforeLift ==
  [][TickProp =>
       /\ dir.state = "array"
       /\ Head(ticks).a < Len(dir.ents)
       /\ dir.ents[Head(ticks).a + 1].hasType]_vars

\* C35: while the directory is the flat array, the entry at index i was read
\* from the record at position i of the on-disk directory chain (the records
\* of the chain's sectors one after the other): it has that record's name,
\* type and start sector.
C35_IndexIsDiskPosition ==
  dir.state = "array" =>
    \A i \in 0..(Len(dir.ents) - 1) :
      /\ i < Len(DiskRecords(file, 1))
      /\ dir.ents[i + 1].name = DecodeName(DiskRecords(file, 1)[i + 1])
      /\ dir.ents[i + 1].hasType =>
           dir.ents[i + 1].type = DiskRecords(file, 1)[i + 1].type
      /\ dir.ents[i + 1].hasSize =>
           dir.ents[i + 1].sect = DiskRecords(file, 1)[i + 1].sect

\* every link of every chain of the file names a sector inside the
\* allocation table
ChainsStayInTable(f) == f.cut \in {"none", "loop"}

\* C36: on a file whose chains stay inside the allocation table no chain
\* walk runs for ever, also when a chain revisits a sector: after a
\* successful open no getStream call is caught in its while loop.
C36_ChainWalksTerminate ==
  (ChainsStayInTable(file) /\ OpenSucceeded) => ~hung

(***************************************************************************)
(* open followed by getStream calls that overlap: a second call is made    *)
(* while the blocks of the first call's stream are still being read.       *)
(***************************************************************************)
OverlapFiles ==
  { Base,
    [Base EXCEPT !.tiny = 128],
    [Base EXCEPT !.big = 1024] }

InitOverlap ==
  /\ rev \in Revs
  /\ file \in OverlapFiles
  /\ fd = "unopened"
  /\ header = NoHeader
  /\ FAT = NoTable
  /\ miniFAT = NoTable
  /\ dir = NoDir
  /\ work = NewWork(OpenTasks, Fn("callback", 0, 0))
  /\ pwork = NoWork
  /\ ticks = <<>>
  /\ reads = {}
  /\ cbCalls = <<>>
  /\ crashed = FALSE
  /\ hung = FALSE
  /\ streams = <<>>
  /\ calls = NoCalls
  /\ openReads = 0
  /\ bufProps = <<>>
  /\ prop = NoProp

NextOverlap ==
  \/ FsOpen
  \/ TickParseHeader
  \/ HeaderRead
  \/ TickParseFAT
  \/ TickPhaseRead
  \/ FATRead
  \/ TickOuterNext
  \/ TickMaybeDIF
  \/ TickMaybeDir
  \/ DirRead
  \/ TickLift
  \/ TickMaybeMiniFAT
  \/ MiniFATRead
  \/ TickCallback
  \/ GetStreamConcurrent
  \/ TickReadBlock
  \/ BlockRead
  \/ TickEmitEnd

SpecOverlap == InitOverlap /\ [][NextOverlap]_vars

\* the stream a getStream(id) call creates when it is the only call made on
\* the opened parser
StreamAlone(id) ==
  GetStreamCall(rev, header, FAT, miniFAT, dir, 0, id, "user").stream

\* C37: whatever other streams are being read, a stream reads the blocks and
\* keeps the byte count of a call made alone, and its k-th chunk is the
\* chunk of the k-th block with the length a call made alone gives it; an
\* error or the end is its last event, and the end comes after a chunk for
\* every block.
C37_StreamsDoNotInterfere ==
  \A sn \in DOMAIN streams :
    LET st == streams[sn]
        alone == StreamAlone(st.id)
    IN  /\ st.curSize = alone.curSize
        /\ st.bytes = alone.bytes
        /\ Len(st.w.tasks) = Len(alone.w.tasks)
        /\ \A k \in DOMAIN st.w.tasks : st.w.tasks[k].b = alone.w.tasks[k].b
        /\ Len(st.events) <= Len(alone.w.tasks) + 1
        /\ \A k \in DOMAIN st.events :
             /\ st.events[k].ev = "data" =>
                  /\ k <= Len(alone.w.tasks)
                  /\ st.events[k].pos = alone.w.tasks[k].b
                  /\ st.events[k].len =
                       ChunkLen(alone.curSize, alone.streamSize, alone.bytes)
             /\ st.events[k].ev # "data" => k = Len(st.events)
             /\ st.events[k].ev = "end" => k = Len(alone.w.tasks) + 1

\* C37 witness: two streams of two blocks each are both half read: each has
\* delivered its first chunk and neither its second
C37_TwoStreamsHalfRead ==
  /\ Len(streams) = 2
  /\ \A sn \in {1, 2} :
       /\ Len(streams[sn].w.tasks) = 2
       /\ Len(streams[sn].events) = 1
       /\ streams[sn].events[1].ev = "data"
  /\ streams[1].id # streams[2].id

\* the end callback of stream sn waits in process.nextTick
EndQueued(sn) ==
  \E i \in DOMAIN ticks : ticks[i].kind = "emitEnd" /\ ticks[i].a = sn

\* C38: in the step in which getStream creates a stream and hands it to its
\* callback (the caller's, or the property-set decode's) the stream has
\* emitted nothing: every event of a stream is emitted in a later turn of
\* the event loop, also the end of a stream whose chain is empty.
C38_StreamHandedBeforeEvents ==
  [][\A sn \in DOMAIN streams' :
       sn \notin DOMAIN streams => streams'[sn].events = <<>>]_vars

\* C38 witness: getStream has handed out a stream whose chain is empty, and
\* its end is still to come
C38_EmptyStreamHandedOut ==
  \E sn \in DOMAIN streams :
    /\ streams[sn].w.tasks = <<>>
    /\ streams[sn].events = <<>>
    /\ calls.last.op = "getStream" /\ calls.last.ret = sn
    /\ EndQueued(sn)

\* C39: a stream whose chain is empty (its entry's start sector is
\* ENDOFCHAIN) has no read task waiting and no read in flight; while its end
\* callback waits it has emitted nothing, and afterwards its events are one
\* end and nothing else.
C39_EmptyChainOnlyEnds ==
  \A sn \in DOMAIN streams :
    (dir.state = "array" /\ dir.ents[streams[sn].id + 1].sect = ENDOFCHAIN) =>
      /\ streams[sn].w.tasks = <<>>
      /\ QueuedBlockTicks(sn) = {} /\ BlockReadsInFlight(sn) = {}
      /\ IF EndQueued(sn) THEN streams[sn].events = <<>>
         ELSE streams[sn].events = <<Event("end", 0, 0)>>

\* C39 witness: a stream of an entry whose start sector is ENDOFCHAIN has
\* ended without a read
C39_EmptyStreamEnded ==
  \E sn \in DOMAIN streams :
    /\ dir.state = "array"
    /\ dir.ents[streams[sn].id + 1].sect = ENDOFCHAIN
    /\ dir.ents[streams[sn].id + 1].type = STGTY_STREAM
    /\ streams[sn].events = <<Event("end", 0, 0)>>
    /\ reads = {}

====
